---- MODULE Spec2Model ----
(***************************************************************************)
(* State-machine model of the CAN transport of src/drivers/can:            *)
(* CanSimple (connection.rs) with its dedicated I/O closure, the listener  *)
(* registry, CanSimpleListener and its consume task, and the callers of    *)
(* the public operations (send, listen, shutdown, register_callbacks,      *)
(* get_message, on_message_received).                                      *)
(***************************************************************************)
EXTENDS Integers, Naturals, Sequences, FiniteSets, TLC

(* ------------------------------------------------------------------ *)
(* Bounds of the model                                                  *)
(* ------------------------------------------------------------------ *)
\* mpsc::channel(32) of a listener (connection.rs:45), scaled down
FifoCap == 2
\* mpsc::channel(32) of the pending-send queue (connection.rs:115), scaled down
CmdCap == 2
\* listeners that register_callbacks may add in one run
MaxListeners == 2
\* frames the bus delivers to the socket after it was opened
MaxArrivals == 2
\* frames already queued on the socket when it is opened
MaxStale == 1
\* send() calls in one run
MaxSends == 2
\* broadcast::channel(256) (connection.rs:116), scaled down
BroadcastCap == 1

(* ------------------------------------------------------------------ *)
(* Frames and the message contract (messages.rs)                        *)
(* ------------------------------------------------------------------ *)
NoFrame == [arbitration_id |-> 0, data |-> <<>>, is_extended_id |-> FALSE]

RawCanMessage(id, data, ext) ==
    [arbitration_id |-> id, data |-> data, is_extended_id |-> ext]

\* (0x140..0x160).contains(id) || (0x240..0x260).contains(id)
MyActuatorCanMessage_matches(msg) ==
    \/ (msg.arbitration_id >= 320 /\ msg.arbitration_id < 352)
    \/ (msg.arbitration_id >= 576 /\ msg.arbitration_id < 608)

\* cmd_id() of the two status types: 0x9A and 0x9C
CmdIdOf(T) ==
    IF T = "MyactuatorReadMotorStatus1Message" THEN 154 ELSE 156

MsgTypes == {"MyactuatorReadMotorStatus1Message", "ReadMotorStatus2Message"}

\* T::matches for the two status types
Matches(T, msg) ==
    /\ MyActuatorCanMessage_matches(msg)
    /\ msg.data # <<>>
    /\ msg.data[1] = CmdIdOf(T) % 256

\* custom_value.unwrap_or(0x140 + node_id), custom_value = None
MyActuatorArbitrationId_value(node_id) == 320 + node_id

\* MyActuatorCanMessage::as_can_message: the base's value and the base's data
MyActuatorCanMessage_as_can_message(node_id) ==
    RawCanMessage(MyActuatorArbitrationId_value(node_id),
                  <<0, 0, 0, 0, 0, 0, 0, 0>>, FALSE)


\* a frame as the socket holds it: CanFrame with a standard or an extended id
CanFrame(id, ext, data) == [id |-> id, ext |-> ext, data |-> data]

NoCanFrame == CanFrame(0, FALSE, <<>>)

\* CanSimple::frame_to_raw
frame_to_raw(frame) ==
    [arbitration_id |-> frame.id, data |-> frame.data, is_extended_id |-> frame.ext]

\* frames the bus can deliver: a status-1 reply and a status-2 reply of node 1
BusFrames ==
    { CanFrame(321, FALSE, <<154, 40, 0, 1, 0, 0, 0, 0>>),
      CanFrame(321, FALSE, <<156, 40, 0, 0, 0, 0, 0, 0>>) }

StaleFrame == CanFrame(321, FALSE, <<154, 0, 0, 0, 0, 0, 0, 0>>)

(* ------------------------------------------------------------------ *)
(* State                                                                *)
(* ------------------------------------------------------------------ *)
VARIABLES
    handle,     \* what CanSimple::new handed to its caller
    chan,       \* frames queued on the socket, oldest first
    arrived,    \* frames the bus delivered after the open
    flushed,    \* the flush discarded a frame that was queued at the open
    ioPc,       \* position of the dedicated I/O closure
    ioIdx,      \* index of the error fan-out loop over the registry
    ioExit,     \* why the I/O closure ended
    published,  \* frames sent on the broadcast channel, in order
    regLock,    \* holder of the registry's std mutex
    listeners,  \* the registry: one record per CanSimpleListener
    task,       \* consume task of each registry entry
    cmdq,       \* pending-send queue (command_tx / command_rx)
    cmdClosed,  \* command_rx was dropped
    written,    \* frames written to the socket, in order
    wrFail,     \* writes that returned an error
    sender,     \* the callers of send()
    nSends,     \* send() calls so far
    enqLog,     \* call numbers of the frames put on the pending-send queue, in order
    shPc,       \* position of shutdown()
    lsPc,       \* position of CanSimple::listen
    lsIdx,      \* index of the task CanSimple::listen awaits
    lsN,        \* size of the registry snapshot of CanSimple::listen
    lsRes,      \* result of CanSimple::listen
    gm,         \* an outside caller of get_message()
    dv,         \* an outside caller of on_message_received()
    cx          \* a caller of the message contract: encode, decode, classify

vars == << handle, chan, arrived, flushed, ioPc, ioIdx, ioExit, published, regLock,
           listeners, task, cmdq, cmdClosed, written, wrFail, sender, nSends,
           enqLog, shPc, lsPc, lsIdx, lsN, lsRes, gm, dv, cx >>

ioVars == << ioPc, ioIdx, ioExit >>
lsVars == << lsPc, lsIdx, lsN, lsRes >>
sendVars == << sender, nSends, enqLog >>

Producers == {1, 2}

\* a message value: its type, its node id and its fields
NoMessage == [T |-> "None", node_id |-> 0, f |-> [none |-> 0]]

\* nothing was encoded or decoded yet
CodecIdle == [pc |-> "idle", T |-> "None", msg |-> NoMessage, frame |-> NoFrame,
              out |-> NoMessage, matching |-> {}]

\* CanSimpleListener::new: empty queue, no error, not stopped
CanSimpleListener_new(T) ==
    [ T          |-> T,
      queue      |-> <<>>,
      bus_error  |-> "None",
      is_stopped |-> FALSE,
      errGuard   |-> "free",     \* holder of the bus_error tokio mutex
      rxGuard    |-> "free",     \* holder of the queue_rx tokio mutex
      nErr       |-> 0,          \* on_error calls so far
      enq        |-> <<>>,       \* every message ever put in the queue
      taken      |-> <<>>,       \* messages returned to outside callers
      handled    |-> <<>> ]      \* messages the callback was invoked with

NoTask == [pc |-> "none", res |-> "None", sub |-> 0, at |-> 0, cur |-> NoFrame,
           why |-> "None"]

IdleSender == [pc |-> "idle", frame |-> NoCanFrame, seq |-> 0, res |-> "None",
               raw |-> NoFrame, late |-> FALSE]

SendCmd(frame, seq) == [kind |-> "Send", frame |-> frame, seq |-> seq]
ShutdownCmd == [kind |-> "Shutdown", frame |-> NoCanFrame, seq |-> 0]

\* the socket at the open: MaxStale frames of earlier traffic are queued on it
StaleQueues == { [i \in 1..MaxStale |-> [frame |-> StaleFrame, stale |-> TRUE]] }

\* the state after CanSimple::new returned: the blocking closure is spawned
\* and has not yet opened the socket
Init ==
    /\ handle = "CanSimple"
    /\ chan \in StaleQueues
    /\ arrived = 0
    /\ flushed = FALSE
    /\ ioPc = "open" /\ ioIdx = 0 /\ ioExit = "None"
    /\ published = <<>>
    /\ regLock = "free"
    /\ listeners = <<>>
    /\ task = <<>>
    /\ cmdq = <<>> /\ cmdClosed = FALSE /\ written = <<>> /\ wrFail = 0
    /\ sender = [p \in Producers |-> IdleSender] /\ nSends = 0 /\ enqLog = <<>>
    /\ shPc = "idle"
    /\ lsPc = "idle" /\ lsIdx = 0 /\ lsN = 0 /\ lsRes = "None"
    /\ gm = [pc |-> "idle", l |-> 0, res |-> "None", n |-> 0, w |-> 0,
             hist |-> <<>>]
    /\ dv = [pc |-> "idle", l |-> 0, frame |-> NoFrame, n |-> 0]
    /\ cx = CodecIdle

(* ------------------------------------------------------------------ *)
(* The dedicated I/O closure (CanSimple::new, spawn_blocking)           *)
(* ------------------------------------------------------------------ *)
IoRunning == ioPc \in {"flush", "read", "drain"}

\* a closure that ends and leaves command_rx open with what it holds
IoLeaveKeepsReceiver(pc, why) ==
    /\ ioPc' = pc
    /\ ioExit' = why
    /\ cmdClosed' = cmdClosed
    /\ cmdq' = cmdq

\* the closure returns or unwinds: command_rx is dropped with whatever it holds
IoLeave(pc, why) ==
    /\ ioPc' = pc
    /\ ioExit' = why
    /\ cmdClosed' = TRUE
    /\ cmdq' = <<>>

\* CanSocket::open(channel).expect(..): a failure panics inside the closure
IoOpen ==
    /\ ioPc = "open"
    /\ \/ /\ ioPc' = "flush"
          /\ UNCHANGED << ioExit, cmdClosed, cmdq >>
       \/ IoLeave("panicked", "open")
    /\ UNCHANGED << handle, chan, arrived, flushed, ioIdx, published, regLock, listeners,
                    task, written, wrFail, sendVars, shPc, lsVars, gm, dv, cx >>

\* a start-up that goes to the loop without emptying the socket
IoFlushSkipped ==
    /\ ioPc = "flush"
    /\ ioPc' = "read"
    /\ UNCHANGED << handle, chan, arrived, flushed, ioIdx, ioExit, published,
                    regLock, listeners, task, cmdq, cmdClosed, written, wrFail,
                    sendVars, shPc, lsVars, gm, dv, cx >>

\* while cs.recv_timeout(Duration::ZERO).is_ok() {}
IoFlush ==
    /\ ioPc = "flush"
    /\ IF chan # <<>>
         THEN /\ chan' = Tail(chan)
              /\ ioPc' = "flush"
              /\ flushed' = (flushed \/ Head(chan).stale)
         ELSE /\ chan' = chan
              /\ ioPc' = "read"
              /\ flushed' = flushed
    /\ UNCHANGED << handle, arrived, ioIdx, ioExit, published, regLock, listeners,
                    task, cmdq, cmdClosed, written, wrFail, sendVars, shPc, lsVars, gm, dv, cx >>

\* the bus puts one more frame on the socket
BusArrive ==
    /\ IoRunning
    /\ arrived < MaxArrivals
    /\ \E f \in BusFrames :
         chan' = Append(chan, [frame |-> f, stale |-> FALSE])
    /\ arrived' = arrived + 1
    /\ UNCHANGED << handle, flushed, ioVars, published, regLock, listeners, task,
                    cmdq, cmdClosed, written, wrFail, sendVars, shPc, lsVars, gm,
                    dv, cx >>

\* frames published since the subscription of listener i was created
Lag(i) == Len(published) - task[i].sub

\* the largest backlog of a subscription
MaxLag ==
    IF \E i \in 1..Len(task) : task[i].pc # "none"
      THEN CHOOSE n \in 0..Len(published) :
             /\ \E i \in 1..Len(task) : task[i].pc # "none" /\ Lag(i) = n
             /\ \A i \in 1..Len(task) : task[i].pc # "none" => Lag(i) <= n
      ELSE 0

\* a publish that waits for the slowest subscription once the ring is full
BroadcastTxSendBounded(lag) == IF lag < BroadcastCap THEN "Ok" ELSE "Wait"

\* broadcast_tx.send(raw): the ring overwrites its oldest slot, the sender
\* never waits for a subscription whatever its backlog
BroadcastTxSend(lag) == "Ok"

\* cs.recv_timeout(10 ms) returned Ok(frame): let _ = broadcast_tx.send(raw)
IoReadFrame ==
    /\ ioPc = "read"
    /\ chan # <<>>
    /\ BroadcastTxSend(MaxLag) = "Ok"
    /\ published' = Append(published,
                           [raw |-> frame_to_raw(Head(chan).frame),
                            stale |-> Head(chan).stale])
    /\ chan' = Tail(chan)
    /\ ioPc' = "drain"
    /\ UNCHANGED << handle, arrived, flushed, ioIdx, ioExit, regLock, listeners, task,
                    cmdq, cmdClosed, written, wrFail, sendVars, shPc, lsVars, gm, dv, cx >>

\* a read that finds no frame and does not time out: it is taken for a fault
IoReadTimeoutAsFault ==
    /\ ioPc = "read"
    /\ chan = <<>>
    /\ ioPc' = "lockReg"
    /\ UNCHANGED << handle, chan, arrived, flushed, ioIdx, ioExit, published, regLock,
                    listeners, task, cmdq, cmdClosed, written, wrFail, sendVars,
                    shPc, lsVars, gm, dv, cx >>

\* cs.recv_timeout(10 ms) returned Err(Timeout)
IoReadTimeout ==
    /\ ioPc = "read"
    /\ chan = <<>>
    /\ ioPc' = "drain"
    /\ UNCHANGED << handle, chan, arrived, flushed, ioIdx, ioExit, published, regLock,
                    listeners, task, cmdq, cmdClosed, written, wrFail, sendVars, shPc,
                    lsVars, gm, dv, cx >>

\* cs.recv_timeout(10 ms) returned another error: go for the registry lock
IoReadFault ==
    /\ ioPc = "read"
    /\ ioPc' = "lockReg"
    /\ UNCHANGED << handle, chan, arrived, flushed, ioIdx, ioExit, published, regLock,
                    listeners, task, cmdq, cmdClosed, written, wrFail, sendVars, shPc,
                    lsVars, gm, dv, cx >>

\* let g = listeners.lock().unwrap(): waits while another holder has it
IoLockRegistry ==
    /\ ioPc = "lockReg"
    /\ regLock = "free"
    /\ regLock' = "io"
    /\ ioPc' = "fanout"
    /\ ioIdx' = 1
    /\ UNCHANGED << handle, chan, arrived, flushed, ioExit, published, listeners, task,
                    cmdq, cmdClosed, written, wrFail, sendVars, shPc, lsVars, gm, dv, cx >>

\* on_error that counts the call and stores no error
on_error_lost(l) == [l EXCEPT !.nErr = @ + 1]

\* CanSimpleListener::on_error: *bus_error.blocking_lock() = Some(exc)
on_error(l) == [l EXCEPT !.bus_error = "BusFault", !.nErr = @ + 1]

\* for l in &*g { l.on_error(..) }: one listener per step, waiting for its
\* bus_error mutex while the consume task holds it
IoOnError ==
    /\ ioPc = "fanout"
    /\ ioIdx <= Len(listeners)
    /\ listeners[ioIdx].errGuard = "free"
    /\ listeners' = [listeners EXCEPT ![ioIdx] = on_error(@)]
    /\ ioIdx' = ioIdx + 1
    /\ UNCHANGED << handle, chan, arrived, flushed, ioPc, ioExit, published, regLock, task,
                    cmdq, cmdClosed, written, wrFail, sendVars, shPc, lsVars, gm, dv, cx >>

\* break: the guard g is released and the closure returns
IoFaultExit ==
    /\ ioPc = "fanout"
    /\ ioIdx > Len(listeners)
    /\ regLock' = "free"
    /\ IoLeave("exited", "fault")
    /\ UNCHANGED << handle, chan, arrived, flushed, ioIdx, published, listeners, task,
                    written, wrFail, sendVars, shPc, lsVars, gm, dv, cx >>

\* while let Some(cmd) = command_rx.try_recv(): nothing queued, next read
\* a drain loop that goes back to the read with commands still pending
IoDrainLeavesEarly ==
    /\ ioPc = "drain"
    /\ ioPc' = "read"
    /\ UNCHANGED << handle, chan, arrived, flushed, ioIdx, ioExit, published, regLock,
                    listeners, task, cmdq, cmdClosed, written, wrFail, sendVars, shPc,
                    lsVars, gm, dv, cx >>

IoDrainEmpty ==
    /\ ioPc = "drain"
    /\ cmdq = <<>>
    /\ ioPc' = "read"
    /\ UNCHANGED << handle, chan, arrived, flushed, ioIdx, ioExit, published, regLock,
                    listeners, task, cmdq, cmdClosed, written, wrFail, sendVars, shPc,
                    lsVars, gm, dv, cx >>

\* a receiver that hands out the newest pending command first
CommandRxTryRecvNewest(q) == [cmd |-> q[Len(q)], rest |-> SubSeq(q, 1, Len(q) - 1)]

\* command_rx.try_recv() on a non-empty queue: the oldest pending command
CommandRxTryRecv(q) == [cmd |-> Head(q), rest |-> Tail(q)]

\* Command::Send(f): cs.write(&f); a write error is logged and the loop goes on
IoDrainSend ==
    /\ ioPc = "drain"
    /\ cmdq # <<>>
    /\ LET r == CommandRxTryRecv(cmdq)
       IN  /\ r.cmd.kind = "Send"
           /\ cmdq' = r.rest
           /\ \/ written' = Append(written, r.cmd) /\ wrFail' = wrFail
              \/ written' = written /\ wrFail' = wrFail + 1
    /\ UNCHANGED << handle, chan, arrived, flushed, ioVars, published, regLock, listeners,
                    task, cmdClosed, sendVars, shPc, lsVars, gm, dv, cx >>

\* Command::Shutdown => return
IoDrainShutdown ==
    /\ ioPc = "drain"
    /\ cmdq # <<>>
    /\ Head(cmdq).kind = "Shutdown"
    /\ IoLeave("exited", "shutdown")
    /\ UNCHANGED << handle, chan, arrived, flushed, ioIdx, published, regLock, listeners,
                    task, written, wrFail, sendVars, shPc, lsVars, gm, dv, cx >>

(* ------------------------------------------------------------------ *)
(* register_callbacks, CanSimple::listen and the consume tasks          *)
(* ------------------------------------------------------------------ *)
\* a registration that a listen() in flight picks up: the new listener gets
\* a consume task at once
RegisterCallbacksJoinsListen ==
    /\ shPc = "idle"
    /\ regLock = "free"
    /\ Len(listeners) < MaxListeners
    /\ \E T \in MsgTypes :
         listeners' = Append(listeners, CanSimpleListener_new(T))
    /\ task' = Append(task, IF lsPc = "await"
                              THEN [pc |-> "top", res |-> "None",
                                    sub |-> Len(published), at |-> Len(published),
                                    cur |-> NoFrame, why |-> "None"]
                              ELSE [pc |-> "none", res |-> "None", sub |-> 0,
                                    at |-> 0, cur |-> NoFrame, why |-> "None"])
    /\ UNCHANGED << handle, chan, arrived, flushed, ioVars, published, regLock, cmdq,
                    cmdClosed, written, wrFail, sendVars, shPc, lsVars, gm, dv, cx >>

\* register_callbacks::<T>: under the registry lock, push a new listener
RegisterCallbacks ==
    /\ shPc = "idle"
    /\ regLock = "free"
    /\ Len(listeners) < MaxListeners
    /\ \E T \in MsgTypes :
         listeners' = Append(listeners, CanSimpleListener_new(T))
    /\ task' = Append(task, NoTask)
    /\ UNCHANGED << handle, chan, arrived, flushed, ioVars, published, regLock, cmdq,
                    cmdClosed, written, wrFail, sendVars, shPc, lsVars, gm, dv, cx >>

\* a subscription that replays the channel from its first frame
SubscribeFromStart(pub) == 0

\* broadcast_tx.subscribe(): the new receiver starts after the last frame sent
Subscribe(pub) == Len(pub)

\* l.listen(rx) for one registry entry: rx = broadcast_tx.subscribe(), then
\* tokio::spawn of the consume loop
SpawnTask ==
    [pc |-> "top", res |-> "None", sub |-> Subscribe(published),
     at |-> Len(published), cur |-> NoFrame, why |-> "None"]

\* CanSimple::listen up to its first await: snapshot of the registry under the
\* lock, one subscription and one spawned task per snapshot entry
ListenCall ==
    /\ shPc = "idle"
    /\ lsPc = "idle"
    /\ regLock = "free"
    /\ task' = [i \in 1..Len(listeners) |-> SpawnTask]
    /\ lsN' = Len(listeners)
    /\ lsIdx' = 1
    /\ lsPc' = "await"
    /\ UNCHANGED << handle, chan, arrived, flushed, ioVars, published, regLock, listeners,
                    cmdq, cmdClosed, written, wrFail, sendVars, shPc, lsRes, gm, dv, cx >>

\* for task in tasks { task.await??; }: the awaited task has ended
ListenAwait ==
    /\ lsPc = "await"
    /\ lsIdx <= lsN
    /\ task[lsIdx].pc = "done"
    /\ IF task[lsIdx].res = "Err"
         THEN lsPc' = "done" /\ lsRes' = "Err" /\ lsIdx' = lsIdx
         ELSE lsIdx' = lsIdx + 1 /\ UNCHANGED << lsPc, lsRes >>
    /\ UNCHANGED << handle, chan, arrived, flushed, ioVars, published, regLock, listeners,
                    task, cmdq, cmdClosed, written, wrFail, sendVars, shPc, lsN, gm, dv, cx >>

\* Ok(()) after the last task
ListenReturn ==
    /\ lsPc = "await"
    /\ lsIdx > lsN
    /\ lsPc' = "done"
    /\ lsRes' = "Ok"
    /\ UNCHANGED << handle, chan, arrived, flushed, ioVars, published, regLock, listeners,
                    task, cmdq, cmdClosed, written, wrFail, sendVars, shPc, lsIdx, lsN,
                    gm, dv, cx >>

\* the caller drops the future of listen() (listen_task.abort() in the tool)
ListenAbort ==
    /\ lsPc = "await"
    /\ lsPc' = "aborted"
    /\ UNCHANGED << handle, chan, arrived, flushed, ioVars, published, regLock, listeners,
                    task, cmdq, cmdClosed, written, wrFail, sendVars, shPc, lsIdx, lsN,
                    lsRes, gm, dv, cx >>

\* the I/O closure is queued on listener i's bus_error mutex (blocking_lock);
\* the tokio mutex hands the lock over in arrival order
IoWaitsFor(i) == ioPc = "fanout" /\ ioIdx = i

\* a loop head that does not test the stop flag
TaskTopIgnoringStop(i) ==
    /\ task[i].pc = "top"
    /\ listeners[i].errGuard = "free"
    /\ ~(ioPc = "fanout" /\ ioIdx = i)
    /\ IF listeners[i].bus_error # "None"
         THEN /\ task' = [task EXCEPT ![i].pc = "final", ![i].why = "error"]
              /\ UNCHANGED listeners
         ELSE /\ task' = [task EXCEPT ![i].pc = "recv"]
              /\ listeners' = [listeners EXCEPT ![i].errGuard = "task"]
    /\ UNCHANGED << handle, chan, arrived, flushed, ioVars, published, regLock, cmdq,
                    cmdClosed, written, wrFail, sendVars, shPc, lsVars, gm, dv, cx >>

\* top of the consume loop: while let None = *bus_error.lock().await, then
\* the is_stopped test; the guard lives to the end of the iteration. why
\* records which of the two tests ended the loop
TaskTop(i) ==
    /\ task[i].pc = "top"
    /\ listeners[i].errGuard = "free"
    /\ ~IoWaitsFor(i)
    /\ IF listeners[i].bus_error # "None" \/ listeners[i].is_stopped
         THEN /\ task' = [task EXCEPT ![i].pc = "final",
                                      ![i].why = IF listeners[i].bus_error # "None"
                                                   THEN "error" ELSE "stop"]
              /\ UNCHANGED listeners
         ELSE /\ task' = [task EXCEPT ![i].pc = "recv"]
              /\ listeners' = [listeners EXCEPT ![i].errGuard = "task"]
    /\ UNCHANGED << handle, chan, arrived, flushed, ioVars, published, regLock, cmdq,
                    cmdClosed, written, wrFail, sendVars, shPc, lsVars, gm, dv, cx >>

\* a consume task that reads the oldest message and leaves it in the queue
TaskRecvMessagePeek(i) ==
    /\ task[i].pc = "recv"
    /\ listeners[i].rxGuard = "free"
    /\ listeners[i].queue # <<>>
    /\ task' = [task EXCEPT ![i].pc = "callback",
                            ![i].cur = Head(listeners[i].queue)]
    /\ UNCHANGED listeners
    /\ UNCHANGED << handle, chan, arrived, flushed, ioVars, published, regLock, cmdq,
                    cmdClosed, written, wrFail, sendVars, shPc, lsVars, gm, dv, cx >>

\* time::timeout(10 ms, get_message()) returned Ok(msg): callback(msg) starts
TaskRecvMessage(i) ==
    /\ task[i].pc = "recv"
    /\ listeners[i].rxGuard = "free"
    /\ listeners[i].queue # <<>>
    /\ task' = [task EXCEPT ![i].pc = "callback",
                            ![i].cur = Head(listeners[i].queue)]
    /\ listeners' = [listeners EXCEPT ![i].queue = Tail(@)]
    /\ UNCHANGED << handle, chan, arrived, flushed, ioVars, published, regLock, cmdq,
                    cmdClosed, written, wrFail, sendVars, shPc, lsVars, gm, dv, cx >>

\* time::timeout(10 ms, get_message()) elapsed: end of the iteration
TaskRecvTimeout(i) ==
    /\ task[i].pc = "recv"
    /\ listeners[i].rxGuard # "free" \/ listeners[i].queue = <<>>
    /\ task' = [task EXCEPT ![i].pc = "top"]
    /\ listeners' = [listeners EXCEPT ![i].errGuard = "free"]
    /\ UNCHANGED << handle, chan, arrived, flushed, ioVars, published, regLock, cmdq,
                    cmdClosed, written, wrFail, sendVars, shPc, lsVars, gm, dv, cx >>

\* (cb)(msg).await completed: end of the iteration
TaskCallbackDone(i) ==
    /\ task[i].pc = "callback"
    /\ task' = [task EXCEPT ![i].pc = "top", ![i].cur = NoFrame]
    /\ listeners' = [listeners EXCEPT ![i].errGuard = "free",
                                      ![i].handled = Append(@, task[i].cur)]
    /\ UNCHANGED << handle, chan, arrived, flushed, ioVars, published, regLock, cmdq,
                    cmdClosed, written, wrFail, sendVars, shPc, lsVars, gm, dv, cx >>

\* a read of the error slot that leaves the error in it
take_keeps(l) == l

\* Option::take on the error slot: the slot is left empty
take(l) == [l EXCEPT !.bus_error = "None"]

\* bus_error.lock().await.take(): Err(err) if an error was stored, else Ok(())
TaskFinal(i) ==
    /\ task[i].pc = "final"
    /\ listeners[i].errGuard = "free"
    /\ ~IoWaitsFor(i)
    /\ task' = [task EXCEPT ![i].pc = "done",
                            ![i].res = IF listeners[i].bus_error # "None"
                                         THEN "Err" ELSE "Ok"]
    /\ listeners' = [listeners EXCEPT ![i] = take(@)]
    /\ UNCHANGED << handle, chan, arrived, flushed, ioVars, published, regLock, cmdq,
                    cmdClosed, written, wrFail, sendVars, shPc, lsVars, gm, dv, cx >>

TaskStep(i) ==
    \/ TaskTop(i) \/ TaskRecvMessage(i) \/ TaskRecvTimeout(i)
    \/ TaskCallbackDone(i) \/ TaskFinal(i)

(* ------------------------------------------------------------------ *)
(* CanSimple::shutdown                                                  *)
(* ------------------------------------------------------------------ *)
\* a stop() that flips the flag
stop_toggle(l) == [l EXCEPT !.is_stopped = ~@]

\* a stop() that stores nothing
stop_lost(l) == l

\* CanSimpleListener::stop
stop(l) == [l EXCEPT !.is_stopped = TRUE]

\* let g = listeners.lock().unwrap(); for l in &*g { l.stop(); }
\* shutdown(self) consumes the connection, so no listen(&self) is in flight
ShutdownCall ==
    /\ shPc = "idle"
    /\ lsPc # "await"
    /\ regLock = "free"
    /\ regLock' = "shutdown"
    /\ listeners' = [i \in 1..Len(listeners) |-> stop(listeners[i])]
    /\ shPc' = "sentinel"
    /\ UNCHANGED << handle, chan, arrived, flushed, ioVars, published, task, cmdq,
                    cmdClosed, written, wrFail, sendVars, lsVars, gm, dv, cx >>

\* let _ = command_tx.send(Command::Shutdown).await
ShutdownSentinel ==
    /\ shPc = "sentinel"
    /\ \/ /\ cmdClosed
          /\ cmdq' = cmdq
       \/ /\ ~cmdClosed
          /\ Len(cmdq) < CmdCap
          /\ cmdq' = Append(cmdq, ShutdownCmd)
    /\ shPc' = "join"
    /\ UNCHANGED << handle, chan, arrived, flushed, ioVars, published, regLock, listeners,
                    task, cmdClosed, written, wrFail, sendVars, lsVars, gm, dv, cx >>

\* a shutdown() that does not wait for the join handle
JoinHandleNotAwaited == TRUE

\* join_handle.await is ready: the blocking closure returned or panicked
JoinHandleFinished == ioPc \in {"exited", "panicked"}

\* let _ = self.join_handle.await; then the function returns and the guard g,
\* alive across both awaits, is released
ShutdownJoin ==
    /\ shPc = "join"
    /\ JoinHandleFinished
    /\ shPc' = "returned"
    /\ regLock' = "free"
    /\ UNCHANGED << handle, chan, arrived, flushed, ioVars, published, listeners, task,
                    cmdq, cmdClosed, written, wrFail, sendVars, lsVars, gm, dv, cx >>

(* ------------------------------------------------------------------ *)
(* CanSimple::send                                                      *)
(* ------------------------------------------------------------------ *)
None == -1

\* raw.arbitration_id as u16
AsU16(x) == x % 65536

\* StandardId::new(raw: u16): Some for raw <= 0x7FF
StandardId_new(raw) == IF raw <= 2047 THEN raw ELSE None

\* ExtendedId::new(raw: u32): Some for raw <= 0x1FFFFFFF
ExtendedId_new(raw) == IF raw <= 536870911 THEN raw ELSE None

\* the id send() builds from the encoded message, None when it returns Err
SendId(raw) ==
    IF raw.is_extended_id
      THEN ExtendedId_new(raw.arbitration_id)
      ELSE StandardId_new(AsU16(raw.arbitration_id))

\* node ids of the messages handed to send(): 0x140 + n is 0x145, 0x800, 0x10145
SendNodeIds == {5, 1728, 65541}

\* the as_can_message() results send() is called with: the family-B messages
\* above and two messages of an implementor that uses extended ids
SendRaws ==
    { MyActuatorCanMessage_as_can_message(n) : n \in SendNodeIds }
      \cup { RawCanMessage(536870911, <<1>>, TRUE),
             RawCanMessage(536870912, <<1>>, TRUE) }

\* a send on the queue that does not notice the dropped receiver
CommandTxSendNoCloseCheck(closed, len) ==
    IF len < CmdCap THEN "Ok" ELSE "Wait"

\* command_tx.send(cmd).await on a queue of length len
CommandTxSend(closed, len) ==
    IF closed THEN "Closed" ELSE IF len < CmdCap THEN "Ok" ELSE "Wait"

\* a send() that queues the frame under the masked id before it refuses the id
SendCallQueuesRefused(p) ==
    /\ sender[p].pc = "idle"
    /\ nSends < MaxSends
    /\ nSends' = nSends + 1
    /\ \E raw \in SendRaws :
         LET id    == SendId(raw)
             frame == CanFrame(id, raw.is_extended_id, raw.data)
             r     == CommandTxSend(cmdClosed, Len(cmdq))
             base  == [IdleSender EXCEPT !.raw = raw, !.seq = nSends + 1,
                                         !.late = (ioExit = "shutdown")]
         IN  IF id = None
               THEN /\ sender' = [sender EXCEPT ![p] =
                                    [base EXCEPT !.res = "InvalidId"]]
                    /\ cmdq' = IF r = "Ok"
                                 THEN Append(cmdq,
                                        SendCmd(CanFrame(raw.arbitration_id % 2048,
                                                         raw.is_extended_id, raw.data),
                                                nSends + 1))
                                 ELSE cmdq
                    /\ enqLog' = enqLog
               ELSE /\ sender' = [sender EXCEPT ![p] =
                         [base EXCEPT !.frame = frame,
                                      !.pc = IF r = "Wait" THEN "wait" ELSE "idle",
                                      !.res = IF r = "Wait" THEN "None" ELSE r]]
                    /\ cmdq' = IF r = "Ok"
                                 THEN Append(cmdq, SendCmd(frame, nSends + 1))
                                 ELSE cmdq
                    /\ enqLog' = IF r = "Ok"
                                   THEN Append(enqLog, nSends + 1)
                                   ELSE enqLog
    /\ UNCHANGED << handle, chan, arrived, flushed, ioVars, published, regLock, listeners,
                    task, cmdClosed, written, wrFail, shPc, lsVars, gm, dv, cx >>

\* send(msg) up to its return or to its suspension on the full queue
SendCall(p) ==
    /\ sender[p].pc = "idle"
    /\ nSends < MaxSends
    /\ nSends' = nSends + 1
    /\ \E raw \in SendRaws :
         LET id    == SendId(raw)
             frame == CanFrame(id, raw.is_extended_id, raw.data)
             r     == CommandTxSend(cmdClosed, Len(cmdq))
             base  == [IdleSender EXCEPT !.raw = raw, !.seq = nSends + 1,
                                         !.late = (ioExit = "shutdown")]
         IN  IF id = None
               THEN /\ sender' = [sender EXCEPT ![p] =
                                    [base EXCEPT !.res = "InvalidId"]]
                    /\ cmdq' = cmdq
                    /\ enqLog' = enqLog
               ELSE /\ sender' = [sender EXCEPT ![p] =
                         [base EXCEPT !.frame = frame,
                                      !.pc = IF r = "Wait" THEN "wait" ELSE "idle",
                                      !.res = IF r = "Wait" THEN "None" ELSE r]]
                    /\ cmdq' = IF r = "Ok"
                                 THEN Append(cmdq, SendCmd(frame, nSends + 1))
                                 ELSE cmdq
                    /\ enqLog' = IF r = "Ok"
                                   THEN Append(enqLog, nSends + 1)
                                   ELSE enqLog
    /\ UNCHANGED << handle, chan, arrived, flushed, ioVars, published, regLock, listeners,
                    task, cmdClosed, written, wrFail, shPc, lsVars, gm, dv, cx >>

\* a send() suspended on the full queue goes on: room was made, or the
\* receiver was dropped
SendResume(p) ==
    /\ sender[p].pc = "wait"
    /\ LET r == CommandTxSend(cmdClosed, Len(cmdq))
       IN  /\ r # "Wait"
           /\ sender' = [sender EXCEPT ![p].pc = "idle", ![p].res = r]
           /\ cmdq' = IF r = "Ok"
                        THEN Append(cmdq, SendCmd(sender[p].frame, sender[p].seq))
                        ELSE cmdq
           /\ enqLog' = IF r = "Ok" THEN Append(enqLog, sender[p].seq) ELSE enqLog
    /\ UNCHANGED << handle, chan, arrived, flushed, ioVars, published, regLock, listeners,
                    task, cmdClosed, written, wrFail, nSends, shPc, lsVars, gm, dv, cx >>

(* ------------------------------------------------------------------ *)
(* Outside callers of a listener: get_message and on_message_received  *)
(* ------------------------------------------------------------------ *)
\* get_message() calls in one run
MaxGets == 1

\* frames handed to on_message_received in one run: one more than the queue holds
MaxDeliver == FifoCap + 1

\* the k-th frame handed to on_message_received: a status-1 reply whose
\* temperature byte is k
DvFrame(k) == RawCanMessage(321, <<154, k, 0, 0, 0, 0, 0, 0>>, FALSE)

\* get_message(): queue_rx.lock().await succeeded; rx.recv() is pending
GetMessageCall(i) ==
    /\ gm.pc = "idle"
    /\ gm.n < MaxGets
    /\ listeners[i].rxGuard = "free"
    /\ listeners' = [listeners EXCEPT ![i].rxGuard = "caller"]
    /\ gm' = [gm EXCEPT !.pc = "recv", !.l = i, !.res = "None", !.n = @ + 1]
    /\ UNCHANGED << handle, chan, arrived, flushed, ioVars, published, regLock, task, cmdq,
                    cmdClosed, written, wrFail, sendVars, shPc, lsVars, dv, cx >>

\* rx.recv().await.unwrap() got a message: T::from_can_message(raw) is returned
GetMessageReturn ==
    /\ gm.pc = "recv"
    /\ listeners[gm.l].queue # <<>>
    /\ listeners' = [listeners EXCEPT ![gm.l].queue = Tail(@),
                                      ![gm.l].taken = Append(@, Head(listeners[gm.l].queue)),
                                      ![gm.l].rxGuard = "free"]
    /\ gm' = [gm EXCEPT !.pc = "idle", !.res = "Msg", !.hist = Append(@, "Msg")]
    /\ UNCHANGED << handle, chan, arrived, flushed, ioVars, published, regLock, task, cmdq,
                    cmdClosed, written, wrFail, sendVars, shPc, lsVars, dv, cx >>

\* wait_for_message() calls in one run
MaxWaits == 2

\* a timeout whose deadline can win over a future that is ready
TimeoutElapsesAnyway(ready) == TRUE

\* time::timeout(duration, fut): the future is polled before the deadline, so
\* the deadline wins only while the future is pending
TimeoutElapses(ready) == ~ready

\* wait_for_message(d): get_message() inside time::timeout; queue_rx.lock()
\* succeeded and rx.recv() is pending
WaitForMessageCall(i) ==
    /\ gm.pc = "idle"
    /\ gm.w < MaxWaits
    /\ listeners[i].rxGuard = "free"
    /\ listeners' = [listeners EXCEPT ![i].rxGuard = "caller"]
    /\ gm' = [gm EXCEPT !.pc = "wait", !.l = i, !.res = "None", !.w = @ + 1]
    /\ UNCHANGED << handle, chan, arrived, flushed, ioVars, published, regLock, task, cmdq,
                    cmdClosed, written, wrFail, sendVars, shPc, lsVars, dv, cx >>

\* rx.recv() got a message before the deadline: Some(T::from_can_message(raw))
WaitForMessageSome ==
    /\ gm.pc = "wait"
    /\ listeners[gm.l].queue # <<>>
    /\ listeners' = [listeners EXCEPT ![gm.l].queue = Tail(@),
                                      ![gm.l].taken = Append(@, Head(listeners[gm.l].queue)),
                                      ![gm.l].rxGuard = "free"]
    /\ gm' = [gm EXCEPT !.pc = "idle", !.res = "Some", !.hist = Append(@, "Some")]
    /\ UNCHANGED << handle, chan, arrived, flushed, ioVars, published, regLock, task, cmdq,
                    cmdClosed, written, wrFail, sendVars, shPc, lsVars, dv, cx >>

\* the deadline passed: the get_message() future is dropped with its guard on
\* queue_rx, .ok() turns Err(Elapsed) into None
WaitForMessageNone ==
    /\ gm.pc = "wait"
    /\ TimeoutElapses(listeners[gm.l].queue # <<>>)
    /\ listeners' = [listeners EXCEPT ![gm.l].rxGuard = "free"]
    /\ gm' = [gm EXCEPT !.pc = "idle", !.res = "None", !.hist = Append(@, "None")]
    /\ UNCHANGED << handle, chan, arrived, flushed, ioVars, published, regLock, task, cmdq,
                    cmdClosed, written, wrFail, sendVars, shPc, lsVars, dv, cx >>

\* queue_tx.blocking_send(msg) on a queue of length len
BlockingSend(len) == IF len < FifoCap THEN "Ok" ELSE "Wait"

\* on_message_received(msg): if T::matches(msg), blocking_send a clone
OnMessageReceived(i) ==
    /\ dv.pc = "idle"
    /\ dv.n < MaxDeliver
    /\ LET msg == DvFrame(dv.n + 1)
           r   == BlockingSend(Len(listeners[i].queue))
       IN  IF ~Matches(listeners[i].T, msg)
             THEN /\ dv' = [dv EXCEPT !.n = @ + 1]
                  /\ UNCHANGED listeners
             ELSE IF r = "Ok"
               THEN /\ listeners' = [listeners EXCEPT ![i].queue = Append(@, msg),
                                                      ![i].enq = Append(@, msg)]
                    /\ dv' = [dv EXCEPT !.n = @ + 1]
               ELSE /\ dv' = [pc |-> "blocked", l |-> i, frame |-> msg,
                              n |-> dv.n + 1]
                    /\ UNCHANGED listeners
    /\ UNCHANGED << handle, chan, arrived, flushed, ioVars, published, regLock, task, cmdq,
                    cmdClosed, written, wrFail, sendVars, shPc, lsVars, gm, cx >>

\* the blocked blocking_send goes on once the queue has room
OnMessageResume ==
    /\ dv.pc = "blocked"
    /\ BlockingSend(Len(listeners[dv.l].queue)) = "Ok"
    /\ listeners' = [listeners EXCEPT ![dv.l].queue = Append(@, dv.frame),
                                      ![dv.l].enq = Append(@, dv.frame)]
    /\ dv' = [dv EXCEPT !.pc = "idle", !.frame = NoFrame]
    /\ UNCHANGED << handle, chan, arrived, flushed, ioVars, published, regLock, task, cmdq,
                    cmdClosed, written, wrFail, sendVars, shPc, lsVars, gm, cx >>

(* ------------------------------------------------------------------ *)
(* Specifications                                                       *)
(* ------------------------------------------------------------------ *)
Registered == 1..Len(listeners)

\* the transport with its listeners and no caller of send(), get_message()
\* or on_message_received()
Next ==
    \/ IoOpen \/ IoFlush \/ BusArrive
    \/ IoReadFrame \/ IoReadTimeout \/ IoReadFault
    \/ IoLockRegistry \/ IoOnError \/ IoFaultExit
    \/ IoDrainEmpty \/ IoDrainShutdown
    \/ RegisterCallbacks
    \/ ListenCall \/ ListenAwait \/ ListenReturn \/ ListenAbort
    \/ \E i \in Registered : TaskTop(i)
    \/ \E i \in Registered : TaskRecvTimeout(i)
    \/ \E i \in Registered : TaskFinal(i)
    \/ ShutdownCall \/ ShutdownSentinel \/ ShutdownJoin

Spec == Init /\ [][Next]_vars

\* the steps the blocking thread takes by itself
IoProgress ==
    \/ IoOpen \/ IoFlush
    \/ IoReadFrame \/ IoReadTimeout \/ IoReadFault
    \/ IoLockRegistry \/ IoOnError \/ IoFaultExit
    \/ IoDrainEmpty \/ IoDrainSend \/ IoDrainShutdown

\* the steps of the consume task of listener i
TaskProgress(i) == i \in Registered /\ TaskStep(i)

\* the steps of a listen() or shutdown() future that is being polled
ListenProgress == ListenAwait \/ ListenReturn
ShutdownProgress == ShutdownSentinel \/ ShutdownJoin

\* the blocking thread runs, the runtime schedules every spawned task and
\* polls the futures its callers await
Fairness ==
    /\ WF_vars(IoProgress)
    /\ \A i \in 1..MaxListeners : WF_vars(TaskProgress(i))
    /\ WF_vars(ListenProgress)
    /\ WF_vars(ShutdownProgress)

FairSpec == Spec /\ Fairness

\* the transport on a silent bus (reads time out or fault) with its listeners,
\* listen() and shutdown()
FaultNext ==
    \/ IoOpen \/ IoFlush
    \/ IoReadTimeout \/ IoReadFault
    \/ IoLockRegistry \/ IoOnError \/ IoFaultExit
    \/ IoDrainEmpty \/ IoDrainShutdown
    \/ RegisterCallbacks
    \/ ListenCall \/ ListenAwait \/ ListenReturn \/ ListenAbort
    \/ \E i \in Registered : TaskTop(i)
    \/ \E i \in Registered : TaskRecvTimeout(i)
    \/ \E i \in Registered : TaskFinal(i)
    \/ ShutdownCall \/ ShutdownSentinel \/ ShutdownJoin

FaultSpec == Init /\ [][FaultNext]_vars

FairFaultSpec == FaultSpec /\ Fairness

\* the transport on a silent bus with its listeners, their consume loops in
\* full, and outside callers of get_message() and on_message_received()
QueueNext ==
    \/ IoOpen \/ IoFlush
    \/ IoReadTimeout \/ IoReadFault
    \/ IoLockRegistry \/ IoOnError \/ IoFaultExit
    \/ IoDrainEmpty
    \/ RegisterCallbacks
    \/ ListenCall \/ ListenAwait \/ ListenReturn \/ ListenAbort
    \/ \E i \in Registered : TaskTop(i)
    \/ \E i \in Registered : TaskRecvMessage(i)
    \/ \E i \in Registered : TaskRecvTimeout(i)
    \/ \E i \in Registered : TaskCallbackDone(i)
    \/ \E i \in Registered : TaskFinal(i)
    \/ \E i \in Registered : GetMessageCall(i)
    \/ GetMessageReturn
    \/ \E i \in Registered : OnMessageReceived(i)
    \/ OnMessageResume

QueueSpec == Init /\ [][QueueNext]_vars

\* a pending recv() or blocking_send() goes on as soon as it can
CallerFairness ==
    /\ WF_vars(GetMessageReturn)
    /\ WF_vars(OnMessageResume)

FairQueueSpec == QueueSpec /\ Fairness /\ CallerFairness

\* the transport with its listeners and their consume loops in full, the bus
\* delivering frames, and an outside caller of on_message_received()
ListenNext ==
    \/ IoOpen \/ IoFlush \/ BusArrive
    \/ IoReadFrame \/ IoReadTimeout \/ IoReadFault
    \/ IoLockRegistry \/ IoOnError \/ IoFaultExit
    \/ IoDrainEmpty
    \/ RegisterCallbacks
    \/ ListenCall \/ ListenAwait \/ ListenReturn \/ ListenAbort
    \/ \E i \in Registered : TaskTop(i)
    \/ \E i \in Registered : TaskRecvMessage(i)
    \/ \E i \in Registered : TaskRecvTimeout(i)
    \/ \E i \in Registered : TaskCallbackDone(i)
    \/ \E i \in Registered : TaskFinal(i)
    \/ \E i \in Registered : OnMessageReceived(i)
    \/ OnMessageResume

ListenSpec == Init /\ [][ListenNext]_vars

FairListenSpec == ListenSpec /\ Fairness /\ CallerFairness

(* ------------------------------------------------------------------ *)
(* Claims                                                               *)
(* ------------------------------------------------------------------ *)
Range(s) == { s[j] : j \in 1..Len(s) }

\* frame k of the publish sequence was read after listener i's consume task
\* was started, and listener i's type classifies it as its own
ReadForListener(i, k) ==
    /\ i \in Registered
    /\ task[i].pc # "none"
    /\ k <= Len(published)
    /\ k > task[i].sub
    /\ Matches(listeners[i].T, published[k].raw)

\* listener i's queue received frame k and its callback was invoked with it
DeliveredToListener(i, k) ==
    /\ i \in Registered
    /\ k <= Len(published)
    /\ published[k].raw \in Range(listeners[i].enq)
    /\ published[k].raw \in Range(listeners[i].handled)

BusFaultSeen == ioPc \in {"lockReg", "fanout"} \/ ioExit = "fault"

\* C1: once listen() has started listener i's consume task, every frame the
\* I/O closure reads afterwards that T::matches accepts is eventually put in
\* listener i's queue and handed to its callback, unless the listener is
\* stopped or the bus faults.
C1_MatchedFrameIsDelivered ==
    \A i \in 1..MaxListeners, k \in 1..(MaxStale + MaxArrivals) :
        ReadForListener(i, k)
          ~> \/ DeliveredToListener(i, k)
             \/ (i \in Registered /\ listeners[i].is_stopped)
             \/ BusFaultSeen

\* C2: shutdown(), once called, eventually returns, whatever the I/O closure
\* does meanwhile (a read fault included).
C2_ShutdownReturns ==
    (shPc \in {"sentinel", "join"}) ~> (shPc = "returned")

\* C3: whenever shutdown() has returned, the I/O closure has left its loop.
C3_ReturnedShutdownMeansIoEnded ==
    shPc = "returned" => ioPc \in {"exited", "panicked"}

\* shutdown() returned after the I/O closure consumed the sentinel it queued
C3_Witness ==
    shPc = "returned" /\ ioExit = "shutdown"

\* every listener that was registered when the fan-out ran had on_error called
AllNotified ==
    \A i \in Registered : i < ioIdx => listeners[i].nErr > 0

\* C4: a read that returns a bus fault leads to the error slot of every
\* registered listener being set and to the end of the I/O loop.
C4_ReadFaultIsFannedOut ==
    (ioPc = "lockReg") ~> (ioExit = "fault" /\ AllNotified)

\* C5: a bus read fault while listen() runs with at least one listener makes
\* listen() resolve with the fault as its error (unless its future is dropped).
C5_ListenResolvesWithFault ==
    (lsPc = "await" /\ lsN >= 1 /\ ioPc = "lockReg")
      ~> ((lsPc = "done" /\ lsRes = "Err") \/ lsPc = "aborted")

\* listen() resolved with the error of a fault that hit while it was awaiting
C5_Witness ==
    lsPc = "done" /\ lsRes = "Err" /\ lsN >= 1 /\ ioExit = "fault"

\* C9: a channel that cannot be opened is reported by CanSimple::new to its
\* caller: no connection value is handed out as if it were usable.
C9_OpenFailureIsReported ==
    ioExit = "open" => handle # "CanSimple"

\* the transport with the callers of send() and shutdown(), no listener
SendNext ==
    \/ IoOpen \/ IoFlush \/ BusArrive
    \/ IoReadFrame \/ IoReadTimeout \/ IoReadFault
    \/ IoLockRegistry \/ IoFaultExit
    \/ IoDrainEmpty \/ IoDrainSend \/ IoDrainShutdown
    \/ ShutdownCall \/ ShutdownSentinel \/ ShutdownJoin
    \/ \E p \in Producers : SendCall(p)
    \/ \E p \in Producers : SendResume(p)

SendSpec == Init /\ [][SendNext]_vars

\* the frame of send() call number n is in the pending queue or was written
FrameOfCallKept(n) ==
    \/ \E j \in 1..Len(cmdq) : cmdq[j].kind = "Send" /\ cmdq[j].seq = n
    \/ \E j \in 1..Len(written) : written[j].seq = n

\* C7: a send() issued after the I/O closure consumed the shutdown sentinel
\* and returned gets an error at once, and its frame is neither queued nor
\* written.
C7_SendAfterShutdownIsRefused ==
    \A p \in Producers :
        sender[p].late =>
            /\ sender[p].pc = "idle"
            /\ sender[p].res \in {"InvalidId", "Closed"}
            /\ ~FrameOfCallKept(sender[p].seq)

\* a send() of a valid frame, issued after the sentinel was consumed, was
\* answered with the closed-queue error
C7_Witness ==
    \E p \in Producers :
        sender[p].late /\ sender[p].res = "Closed" /\ shPc = "returned"

\* the arbitration id does not fit the id kind the message asks for
OutOfRange(raw) ==
    IF raw.is_extended_id
      THEN raw.arbitration_id > 536870911
      ELSE raw.arbitration_id > 2047

\* C8: send() answers every message whose arbitration id is above the range
\* of its id kind with an error, and builds no frame from it.
C8_OutOfRangeIdIsRefused ==
    \A p \in Producers :
        OutOfRange(sender[p].raw) =>
            /\ sender[p].res = "InvalidId"
            /\ sender[p].frame = NoCanFrame

\* C6: a caller suspended in get_message() on a listener whose error slot a
\* bus fault has set gets that error: its call resolves with the error.
C6_PendingGetMessageGetsError ==
    (gm.pc = "recv" /\ listeners[gm.l].nErr > 0)
      ~> (gm.pc = "idle" /\ gm.res = "Err")

\* every matching frame handed to listener i so far, the one a blocked
\* on_message_received still holds included
Offered(i) ==
    listeners[i].enq \o (IF dv.pc = "blocked" /\ dv.l = i
                           THEN << dv.frame >> ELSE << >>)

\* nothing was ever taken out of listener i's queue
NothingTaken(i) ==
    /\ listeners[i].handled = << >>
    /\ task[i].pc # "callback"
    /\ ~(gm.l = i /\ gm.res = "Msg")

LastN(s, n) == SubSeq(s, Len(s) - n + 1, Len(s))

\* C10: when more matching frames were handed to a listener than its queue
\* holds and nothing was taken, the queue holds the FifoCap newest frames and
\* the caller of on_message_received is not blocked.
C10_OverflowKeepsNewest ==
    \A i \in Registered :
        (NothingTaken(i) /\ Len(Offered(i)) > FifoCap) =>
            /\ listeners[i].queue = LastN(Offered(i), FifoCap)
            /\ dv.pc # "blocked"

\* the transport with its listeners and listen(), the bus delivering frames;
\* nobody takes from a listener's queue or from its subscription
PublishNext ==
    \/ IoOpen \/ IoFlush \/ BusArrive
    \/ IoReadFrame \/ IoReadTimeout \/ IoReadFault
    \/ IoLockRegistry \/ IoOnError \/ IoFaultExit
    \/ IoDrainEmpty
    \/ RegisterCallbacks
    \/ ListenCall \/ ListenAwait \/ ListenReturn \/ ListenAbort
    \/ \E i \in Registered : TaskTop(i)
    \/ \E i \in Registered : TaskRecvTimeout(i)
    \/ \E i \in Registered : TaskFinal(i)

PublishSpec == Init /\ [][PublishNext]_vars

\* first index of the publish sequence that the ring no longer holds for the
\* subscription of listener i, or that precedes the subscription
ObservableFrom(i) ==
    IF task[i].sub >= Len(published) - BroadcastCap
      THEN task[i].sub
      ELSE Len(published) - BroadcastCap

\* indices in the publish sequence of the frames that rx.recv() on the
\* subscription of listener i yields, in the order it yields them
Observable(i) ==
    [j \in 1..(Len(published) - ObservableFrom(i)) |-> ObservableFrom(i) + j]

EnqPos(n) ==
    IF \E j \in 1..Len(enqLog) : enqLog[j] = n
      THEN CHOOSE j \in 1..Len(enqLog) : enqLog[j] = n
      ELSE 0

\* C13: the frames written to the channel are frames that send() put on the
\* pending-send queue, written in the order of their enqueues and each at most
\* once, whatever the interleaving of the producers and the I/O loop.
C13_WritesFollowEnqueueOrder ==
    /\ \A j \in 1..Len(written) : EnqPos(written[j].seq) >= 1
    /\ \A j, k \in 1..Len(written) :
         j < k => EnqPos(written[j].seq) < EnqPos(written[k].seq)

\* two frames of two concurrent producers were both written
C13_Witness ==
    /\ Len(written) >= 2
    /\ \E p, q \in Producers :
         /\ p # q
         /\ sender[p].seq = written[1].seq
         /\ sender[q].seq = written[2].seq

\* C14: whenever listen() has returned, with Ok or with an error, every
\* consume task it spawned has ended.
C14_ListenReturnsAfterAllTasks ==
    lsPc = "done" => \A i \in 1..lsN : task[i].pc = "done"

\* C15: after a channel write returned an error the I/O closure does not go
\* on to another read: the error ends its loop like a read fault does.
C15_WriteErrorIsFatal ==
    wrFail > 0 => ioPc # "read"

\* C16: a read that ends in a timeout publishes nothing, sets no listener's
\* error slot and does not end the loop: the closure goes on to drain the
\* pending sends, and from the drain to the next read unless it finds the
\* shutdown sentinel.
C16_ReadTimeoutIsNotAnError ==
    [][ /\ IoReadTimeout =>
            /\ published' = published
            /\ listeners' = listeners
            /\ ioExit' = ioExit
            /\ ioPc' = "drain"
        /\ (ioPc = "drain" /\ ioPc' # "drain") =>
            \/ ioPc' = "read"
            \/ (ioPc' = "exited" /\ ioExit' = "shutdown") ]_vars

\* with a listener registered, the closure went from a read that timed out
\* (nothing was ever published) into the drain, where it found the sentinel
C16_Witness ==
    /\ ioExit = "shutdown"
    /\ published = <<>>
    /\ Len(listeners) >= 1
    /\ \A i \in Registered : listeners[i].bus_error = "None"

\* listeners whose consume task is not started, an outside caller of
\* on_message_received() and an outside caller of wait_for_message()
WaitNext ==
    \/ RegisterCallbacks
    \/ \E i \in Registered : OnMessageReceived(i)
    \/ OnMessageResume
    \/ \E i \in Registered : WaitForMessageCall(i)
    \/ WaitForMessageSome
    \/ WaitForMessageNone

WaitSpec == Init /\ [][WaitNext]_vars

\* C17: wait_for_message resolves to None only when its deadline passes with
\* nothing in the listener's queue, and such a call takes nothing out of the
\* queue; every message ever enqueued is either still queued or was returned
\* to a caller, in the order of the enqueues.
C17_WaitForMessageTimesOutWithoutLoss ==
    /\ [](\A i \in Registered :
             listeners[i].taken \o listeners[i].queue = listeners[i].enq)
    /\ [][WaitForMessageNone =>
            /\ listeners[gm.l].queue = <<>>
            /\ listeners'[gm.l].queue = listeners[gm.l].queue]_vars

\* a call resolved to None, a message was enqueued afterwards and the next
\* call returned it
C17_Witness ==
    \E j \in 1..(Len(gm.hist) - 1) :
        /\ gm.hist[j] = "None"
        /\ gm.hist[j + 1] = "Some"
        /\ Len(listeners[gm.l].taken) = 1
        /\ gm.w = 2

(* ------------------------------------------------------------------ *)
(* The message contract of the three families (messages.rs,             *)
(* odrive_msgs.rs, myactuator_v3_msgs.rs, myactuator_x424_msgs.rs)      *)
(* ------------------------------------------------------------------ *)
\* what an operation that unwinds leaves to its caller
Panic == [T |-> "panic", node_id |-> 0, f |-> [none |-> 0]]

\* OdriveArbitrationId::from_can_message: node = id >> 5, cmd = id & 0b11111
OdriveArbitrationId_from_can_message(msg) ==
    [node_id |-> msg.arbitration_id \div 32, cmd_id |-> msg.arbitration_id % 32]

\* a | b on unsigned integers
RECURSIVE BitOr(_, _)
BitOr(a, b) ==
    IF a = 0 THEN b
    ELSE IF b = 0 THEN a
    ELSE (IF a % 2 = 1 \/ b % 2 = 1 THEN 1 ELSE 0) + 2 * BitOr(a \div 2, b \div 2)

\* a value() that shifts the node id by four bits
OdriveArbitrationId_value_shl4(node_id, cmd_id) == BitOr(node_id * 16, cmd_id)

\* OdriveArbitrationId::value: (node_id << 5) | cmd_id
OdriveArbitrationId_value(node_id, cmd_id) == BitOr(node_id * 32, cmd_id)

\* MyActuatorArbitrationId::from_can_message: Ok for an id of one of the two
\* ranges and a payload that holds the command byte, Err otherwise
MyActuatorArbitrationId_from_can_message(msg) ==
    IF msg.arbitration_id >= 320 /\ msg.arbitration_id < 352
      THEN IF msg.data # <<>>
             THEN [ok |-> TRUE, node_id |-> msg.arbitration_id - 320,
                   cmd_id |-> msg.data[1]]
             ELSE [ok |-> FALSE, node_id |-> 0, cmd_id |-> 0]
      ELSE IF msg.arbitration_id >= 576 /\ msg.arbitration_id < 608
        THEN IF msg.data # <<>>
               THEN [ok |-> TRUE, node_id |-> msg.arbitration_id - 576,
                     cmd_id |-> msg.data[1]]
               ELSE [ok |-> FALSE, node_id |-> 0, cmd_id |-> 0]
        ELSE [ok |-> FALSE, node_id |-> 0, cmd_id |-> 0]

\* X424ArbitrationId::from_can_message: the node id is the arbitration id
X424ArbitrationId_from_can_message(msg) ==
    [node_id |-> msg.arbitration_id,
     cmd_id  |-> IF msg.data # <<>> THEN msg.data[1] ELSE 0]

\* the message types of the model, by family; the first of each is the
\* family's generic base type
OdriveTypes == {"OdriveCanMessage", "HeartbeatMessage", "ReadParameterCommand"}
MyActuatorTypes ==
    {"MyActuatorCanMessage", "FunctionControlCommand", "SpeedControlCommand",
     "CANIDCommand"}
      \cup MsgTypes
X424Types == {"X424CanMessageSetAndQuery", "QueryCommunicationModeMessage",
              "QueryCANCommunicationIDMessage"}
AllTypes == OdriveTypes \cup MyActuatorTypes \cup X424Types
BaseTypes == {"OdriveCanMessage", "MyActuatorCanMessage", "X424CanMessageSetAndQuery"}

Family(T) ==
    IF T \in OdriveTypes THEN "A" ELSE IF T \in MyActuatorTypes THEN "B" ELSE "C"

\* T::cmd_id()
cmd_id(T) ==
    CASE T \in BaseTypes -> 0
      [] T = "HeartbeatMessage" -> 1
      [] T = "ReadParameterCommand" -> 4
      [] T \in MsgTypes -> CmdIdOf(T)
      [] T = "FunctionControlCommand" -> 32
      [] T = "SpeedControlCommand" -> 162
      [] T = "CANIDCommand" -> 121
      [] T = "QueryCommunicationModeMessage" -> 129
      [] T = "QueryCANCommunicationIDMessage" -> 130

\* OdriveCanMessage::matches: Self::cmd_id() == arb.cmd_id, with the cmd_id of
\* OdriveCanMessage itself, which is 0
OdriveCanMessage_matches(msg) ==
    cmd_id("OdriveCanMessage") = OdriveArbitrationId_from_can_message(msg).cmd_id

\* T::matches of every type of the model
T_matches(T, msg) ==
    CASE T \in OdriveTypes -> OdriveCanMessage_matches(msg)
      [] T = "MyActuatorCanMessage" -> MyActuatorCanMessage_matches(msg)
      [] T \in MsgTypes -> Matches(T, msg)
      [] T \in {"FunctionControlCommand", "SpeedControlCommand", "CANIDCommand"} ->
            /\ MyActuatorCanMessage_matches(msg)
            /\ msg.data # <<>>
            /\ msg.data[1] = cmd_id(T) % 256
      [] T = "X424CanMessageSetAndQuery" ->
            /\ msg.arbitration_id = 2047
            /\ Len(msg.data) >= 4
            /\ msg.data[4] = cmd_id(T) % 256
      [] T \in {"QueryCommunicationModeMessage", "QueryCANCommunicationIDMessage"} ->
            /\ msg.arbitration_id = 2047
            /\ Len(msg.data) >= 3
            /\ msg.data[3] = 1

\* MyActuatorFunctionControlIndex::value
FunctionControlIndex_value(function) ==
    CASE function = "ClearMultiTurnValue" -> 1
      [] function = "CanidFilterEnable" -> 2
      [] function = "ErrorStatusTransmission" -> 3
      [] function = "MultiTurnSaveOnPowerOff" -> 4
      [] function = "SetCanid" -> 5
      [] function = "SetMaxPositiveAngle" -> 6
      [] function = "SetMaxNegativeAngle" -> 7

FunctionControlIndices ==
    {"ClearMultiTurnValue", "CanidFilterEnable", "ErrorStatusTransmission",
     "MultiTurnSaveOnPowerOff", "SetCanid", "SetMaxPositiveAngle",
     "SetMaxNegativeAngle"}

\* MyActuatorFunctionControlIndex::from_value(..).unwrap_or(ClearMultiTurnValue)
FunctionControlIndex_from_value(value) ==
    IF \E function \in FunctionControlIndices :
           FunctionControlIndex_value(function) = value
      THEN CHOOSE function \in FunctionControlIndices :
             FunctionControlIndex_value(function) = value
      ELSE "ClearMultiTurnValue"

\* ((x >> (8 * k)) & 0xFF) as u8 of a 32-bit signed x
ByteOf(x, k) ==
    CASE k = 0 -> x % 256
      [] k = 1 -> (x \div 256) % 256
      [] k = 2 -> (x \div 65536) % 256
      [] k = 3 -> (x \div 16777216) % 256

\* (b3 as i32) << 24 | (b2 as i32) << 16 | (b1 as i32) << 8 | b0 as i32
I32FromLe(b0, b1, b2, b3) ==
    b0 + 256 * b1 + 65536 * b2
       + 16777216 * (IF b3 >= 128 THEN b3 - 256 ELSE b3)

\* b as i8
AsI8(b) == IF b >= 128 THEN b - 256 ELSE b

\* ((hi as i32) << 8) | lo as i32, then minus 65536 when above 32767
I16FromLe(lo, hi) ==
    LET raw == 256 * hi + lo IN IF raw > 32767 THEN raw - 65536 ELSE raw

\* AxisState::from(u8), as the discriminant of the variant
AxisState_from(value) ==
    IF value \in {1, 2, 3, 4, 6, 7, 8, 9, 10, 11, 12, 13, 14} THEN value ELSE 0

\* ProcedureResult::from(u8), as the discriminant of the variant
ProcedureResult_from(value) == IF value <= 15 THEN value ELSE 0

\* cursor.read_u32::<LittleEndian>() of four bytes whose last is below 0x80
U32FromLe(b0, b1, b2, b3) == b0 + 256 * b1 + 65536 * b2 + 16777216 * b3

\* the fields the constructor called by T::from_can_message starts from
DefaultFields(T) ==
    CASE T \in {"OdriveCanMessage", "MyActuatorCanMessage"} -> [cmd_id |-> 0]
      [] T = "ReadParameterCommand" -> [endpoint_id |-> 0]
      [] T = "HeartbeatMessage" ->
            [axis_error |-> 0, axis_state |-> 0, procedure_result |-> 0,
             trajectory_done |-> FALSE]
      [] T = "SpeedControlCommand" -> [speed_raw |-> 0]
      [] T = "CANIDCommand" -> [read_write_flag |-> "Write", can_id |-> 0]
      [] T = "FunctionControlCommand" ->
            [function |-> "ClearMultiTurnValue", function_value |-> 0]
      [] T = "MyactuatorReadMotorStatus1Message" ->
            [temperature |-> 0, brake_released |-> FALSE, voltage_raw |-> 0,
             error_state |-> 0]
      [] T = "ReadMotorStatus2Message" ->
            [temperature |-> 0, torque_current_raw |-> 0, speed |-> 0, angle |-> 0]
      [] T = "QueryCommunicationModeMessage" -> [mode |-> ""]

\* payload length below which T::parse_can_msg_data leaves the fields alone
ParsedLen(T) ==
    CASE T \in {"OdriveCanMessage", "MyActuatorCanMessage"} -> 0
      [] T = "ReadParameterCommand" -> 4
      [] T = "HeartbeatMessage" -> 7
      [] T = "SpeedControlCommand" -> 8
      [] T = "CANIDCommand" -> 8
      [] T = "FunctionControlCommand" -> 8
      [] T = "MyactuatorReadMotorStatus1Message" -> 8
      [] T = "ReadMotorStatus2Message" -> 8
      [] T = "QueryCommunicationModeMessage" -> 4

\* T::gen_can_msg_data of the message m itself
\* clip(val, min_val, max_val): val.max(min_val).min(max_val)
clip(val, min_val, max_val) ==
    LET lo == IF val > min_val THEN val ELSE min_val
    IN  IF lo < max_val THEN lo ELSE max_val

\* MyActuatorArbitrationId::value with the custom_value field:
\* custom_value.unwrap_or(0x140 + node_id)
MyActuatorArbitrationId_value_or(node_id, custom_value) ==
    IF custom_value # None THEN custom_value
    ELSE MyActuatorArbitrationId_value(node_id)

\* the value() of T::gen_arbitration_id() for a message m
gen_arbitration_id(T, m) ==
    CASE T \in OdriveTypes -> OdriveArbitrationId_value(m.node_id, cmd_id(T))
      [] T = "CANIDCommand" -> MyActuatorArbitrationId_value_or(m.node_id, 768)
      [] T \in MyActuatorTypes -> MyActuatorArbitrationId_value_or(m.node_id, None)

gen_can_msg_data(T, m) ==
    CASE T = "OdriveCanMessage" -> <<>>
      [] T = "MyActuatorCanMessage" -> <<0, 0, 0, 0, 0, 0, 0, 0>>
      [] T = "ReadParameterCommand" ->
            <<0, m.f.endpoint_id % 256, m.f.endpoint_id \div 256, 0>>
      [] T = "HeartbeatMessage" -> <<>>
      [] T = "SpeedControlCommand" ->
            <<cmd_id(T) % 256, 0, 0, 0,
              ByteOf(m.f.speed_raw, 0), ByteOf(m.f.speed_raw, 1),
              ByteOf(m.f.speed_raw, 2), ByteOf(m.f.speed_raw, 3)>>
      [] T = "CANIDCommand" ->
            <<cmd_id(T) % 256, 0,
              IF m.f.read_write_flag = "Read" THEN 1 ELSE 0, 0, 0, 0, 0,
              clip(m.f.can_id, 1, 32)>>
      [] T = "FunctionControlCommand" ->
            <<cmd_id(T) % 256, FunctionControlIndex_value(m.f.function), 0, 0,
              ByteOf(m.f.function_value, 0), ByteOf(m.f.function_value, 1),
              ByteOf(m.f.function_value, 2), ByteOf(m.f.function_value, 3)>>

\* OdriveCanMessage::as_can_message: the base's arbitration id and the base's
\* gen_can_msg_data(), which is empty
OdriveCanMessage_as_can_message(node_id, cmd) ==
    RawCanMessage(OdriveArbitrationId_value(node_id, cmd),
                  gen_can_msg_data("OdriveCanMessage", NoMessage), FALSE)

\* T::as_can_message: every derived type returns self.base.as_can_message()
as_can_message(T, m) ==
    CASE T = "ReadParameterCommand" ->
            OdriveCanMessage_as_can_message(m.node_id, cmd_id(T))
      [] T \in {"FunctionControlCommand", "SpeedControlCommand", "CANIDCommand"} ->
            MyActuatorCanMessage_as_can_message(m.node_id)

\* T::from_can_message; Panic where an unwrap() meets an Err
from_can_message(T, msg) ==
    LET data == msg.data
        arbA == OdriveArbitrationId_from_can_message(msg)
        arbB == MyActuatorArbitrationId_from_can_message(msg)
        arbC == X424ArbitrationId_from_can_message(msg)
        short == Len(data) < ParsedLen(T)
    IN  CASE T = "OdriveCanMessage" ->
               [T |-> T, node_id |-> arbA.node_id, f |-> [cmd_id |-> arbA.cmd_id]]
          [] T = "ReadParameterCommand" ->
               [T |-> T, node_id |-> arbA.node_id,
                f |-> IF short THEN DefaultFields(T)
                      ELSE [endpoint_id |-> data[2] + 256 * data[3]]]
          [] T = "HeartbeatMessage" ->
               [T |-> T, node_id |-> arbA.node_id,
                f |-> IF short THEN DefaultFields(T)
                      ELSE [axis_error |-> U32FromLe(data[1], data[2], data[3], data[4]),
                            axis_state |-> AxisState_from(data[5]),
                            procedure_result |-> ProcedureResult_from(data[6]),
                            trajectory_done |-> data[7] # 0]]
          [] T = "SpeedControlCommand" ->
               IF ~arbB.ok THEN Panic
               ELSE [T |-> T, node_id |-> arbB.node_id,
                     f |-> IF short THEN DefaultFields(T)
                           ELSE [speed_raw |->
                                     I32FromLe(data[5], data[6], data[7], data[8])]]
          [] T = "CANIDCommand" ->
               IF ~arbB.ok THEN Panic
               ELSE [T |-> T, node_id |-> arbB.node_id,
                     f |-> IF short THEN DefaultFields(T)
                           ELSE [read_write_flag |->
                                     IF data[3] # 0 THEN "Read" ELSE "Write",
                                 can_id |-> data[8]]]
          [] T = "MyActuatorCanMessage" ->
               IF ~arbB.ok THEN Panic
               ELSE [T |-> T, node_id |-> arbB.node_id,
                     f |-> [cmd_id |-> arbB.cmd_id]]
          [] T = "FunctionControlCommand" ->
               IF ~arbB.ok THEN Panic
               ELSE [T |-> T, node_id |-> arbB.node_id,
                     f |-> IF short THEN DefaultFields(T)
                           ELSE [function |-> FunctionControlIndex_from_value(data[2]),
                                 function_value |->
                                     I32FromLe(data[5], data[6], data[7], data[8])]]
          [] T = "MyactuatorReadMotorStatus1Message" ->
               IF short THEN [T |-> T, node_id |-> 0, f |-> DefaultFields(T)]
               ELSE IF ~arbB.ok THEN Panic
               ELSE [T |-> T, node_id |-> arbB.node_id,
                     f |-> [temperature |-> AsI8(data[2]),
                            brake_released |-> data[4] # 0,
                            voltage_raw |-> 256 * data[6] + data[5],
                            error_state |-> 256 * data[8] + data[7]]]
          [] T = "ReadMotorStatus2Message" ->
               IF short THEN [T |-> T, node_id |-> 0, f |-> DefaultFields(T)]
               ELSE IF ~arbB.ok THEN Panic
               ELSE [T |-> T, node_id |-> arbB.node_id,
                     f |-> [temperature |-> AsI8(data[2]),
                            torque_current_raw |-> I16FromLe(data[3], data[4]),
                            speed |-> I16FromLe(data[5], data[6]),
                            angle |-> I16FromLe(data[7], data[8])]]
          [] T = "QueryCommunicationModeMessage" ->
               [T |-> T, node_id |-> arbC.node_id,
                f |-> IF short THEN DefaultFields(T)
                      ELSE [mode |-> IF data[4] = 1 THEN "auto" ELSE "qa"]]

(* ------------------------------------------------------------------ *)
(* Callers of the message contract                                      *)
(* ------------------------------------------------------------------ *)
\* the types whose as_can_message and from_can_message the model applies
EncodeTypes == {"ReadParameterCommand", "FunctionControlCommand",
                "SpeedControlCommand", "CANIDCommand"}
DecodeTypes == {"OdriveCanMessage", "ReadParameterCommand", "HeartbeatMessage",
                "SpeedControlCommand", "MyActuatorCanMessage",
                "FunctionControlCommand", "MyactuatorReadMotorStatus1Message",
                "ReadMotorStatus2Message", "QueryCommunicationModeMessage"}

\* the messages handed to as_can_message
Messages(T) ==
    CASE T = "ReadParameterCommand" ->
            { [T |-> T, node_id |-> n, f |-> [endpoint_id |-> e]] :
                n \in {0, 3, 63}, e \in {0, 1, 4660, 65535} }
      [] T = "FunctionControlCommand" ->
            { [T |-> T, node_id |-> n,
               f |-> [function |-> fn, function_value |-> v]] :
                n \in {1, 5, 31}, fn \in FunctionControlIndices,
                v \in {0, 1, -1, 305419896, -2147483647} }
      [] T = "SpeedControlCommand" ->
            { [T |-> T, node_id |-> n, f |-> [speed_raw |-> v]] :
                n \in {1, 5, 31}, v \in {0, 1234, -1234} }
      [] T = "CANIDCommand" ->
            { [T |-> T, node_id |-> n,
               f |-> [read_write_flag |-> rw, can_id |-> c]] :
                n \in {1, 5}, rw \in {"Read", "Write"}, c \in {0, 7, 32, 33} }

\* 8-byte payloads of a status-1 reply, a function control command, a
\* communication mode reply, a read-parameter command, a heartbeat, a
\* speed command and a status-2 reply
PayloadTemplates ==
    { <<154, 40, 0, 1, 250, 0, 3, 0>>,
      <<32, 5, 0, 0, 7, 0, 0, 128>>,
      <<255, 255, 1, 1, 0, 2, 0, 0>>,
      <<0, 52, 18, 0, 0, 0, 0, 0>>,
      <<0, 0, 0, 0, 8, 0, 1, 0>>,
      <<162, 0, 0, 0, 210, 4, 0, 0>>,
      <<156, 30, 16, 39, 255, 255, 44, 1>> }

\* the frames handed to matches and from_can_message: ids of the three
\* families, payloads of every length from 0 to 8
InFrames ==
    { RawCanMessage(id, SubSeq(t, 1, n), FALSE) :
        id \in {96, 97, 100, 321, 581, 2047},
        t \in PayloadTemplates, n \in 0..8 }

\* m.as_can_message() for a message m of type T
CodecEncode ==
    /\ cx.pc = "idle"
    /\ \E T \in EncodeTypes : \E m \in Messages(T) :
         cx' = [cx EXCEPT !.pc = "encoded", !.T = T, !.msg = m,
                          !.frame = as_can_message(T, m)]
    /\ UNCHANGED << handle, chan, arrived, flushed, ioVars, published, regLock, listeners,
                    task, cmdq, cmdClosed, written, wrFail, sendVars, shPc,
                    lsVars, gm, dv >>

\* T::from_can_message of the frame that as_can_message returned
CodecDecode ==
    /\ cx.pc = "encoded"
    /\ cx' = [cx EXCEPT !.pc = "decoded", !.out = from_can_message(cx.T, cx.frame)]
    /\ UNCHANGED << handle, chan, arrived, flushed, ioVars, published, regLock, listeners,
                    task, cmdq, cmdClosed, written, wrFail, sendVars, shPc,
                    lsVars, gm, dv >>

\* a frame from the bus is classified by every type's matches and decoded by
\* a type whose matches accepted it (on_message_received, then get_message)
CodecReceive ==
    /\ cx.pc = "idle"
    /\ \E msg \in InFrames : \E T \in DecodeTypes :
         /\ T_matches(T, msg)
         /\ cx' = [cx EXCEPT !.pc = "received", !.T = T, !.frame = msg,
                             !.matching = { U \in AllTypes : T_matches(U, msg) },
                             !.out = from_can_message(T, msg)]
    /\ UNCHANGED << handle, chan, arrived, flushed, ioVars, published, regLock, listeners,
                    task, cmdq, cmdClosed, written, wrFail, sendVars, shPc,
                    lsVars, gm, dv >>

\* a frame from the bus is offered to a listener whose type's matches
\* refuses it: on_message_received queues nothing and nothing is decoded
CodecRefuse ==
    /\ cx.pc = "idle"
    /\ \E msg \in InFrames : \E T \in DecodeTypes :
         /\ ~T_matches(T, msg)
         /\ cx' = [cx EXCEPT !.pc = "refused", !.T = T, !.frame = msg,
                             !.matching = { U \in AllTypes : T_matches(U, msg) }]
    /\ UNCHANGED << handle, chan, arrived, flushed, ioVars, published, regLock, listeners,
                    task, cmdq, cmdClosed, written, wrFail, sendVars, shPc,
                    lsVars, gm, dv >>

\* the arbitration-id struct of a family as a record of the model: ok is
\* FALSE where from_can_message returned Err
ArbRecord(F, ok, node_id, cmd) ==
    [T |-> F, node_id |-> node_id, f |-> [ok |-> ok, cmd_id |-> cmd]]

\* F::from_can_message(msg) for the arbitration-id struct F
Arb_from_can_message(F, msg) ==
    CASE F = "OdriveArbitrationId" ->
            LET a == OdriveArbitrationId_from_can_message(msg)
            IN  ArbRecord(F, TRUE, a.node_id, a.cmd_id)
      [] F = "MyActuatorArbitrationId" ->
            LET a == MyActuatorArbitrationId_from_can_message(msg)
            IN  ArbRecord(F, a.ok, a.node_id, a.cmd_id)

\* a.value() for the arbitration-id struct a (custom_value is None)
Arb_value(a) ==
    CASE a.T = "OdriveArbitrationId" -> OdriveArbitrationId_value(a.node_id, a.f.cmd_id)
      [] a.T = "MyActuatorArbitrationId" ->
            MyActuatorArbitrationId_value_or(a.node_id, None)

ArbFamilies == {"OdriveArbitrationId", "MyActuatorArbitrationId"}

\* the command ids the family-A message types declare
OdriveCmdIds ==
    {0, 1, 2, 3, 4, 5, 7, 9, 11, 12, 13, 14, 15, 17, 18, 19, 20, 21, 22, 23, 24,
     25, 26, 27, 28, 29, 31}

\* the frames handed to an arbitration-id struct: every 11-bit id for family
\* A; for family B the two ranges and their neighbours, with and without a
\* payload
ArbFrames(F) ==
    IF F = "OdriveArbitrationId"
      THEN { RawCanMessage(id, <<>>, FALSE) : id \in 0..2047 }
      ELSE { RawCanMessage(id, d, FALSE) :
               id \in (319..352) \cup (575..608), d \in {<<>>, <<154>>, <<162, 0>>} }

\* the arbitration-id structs a message is built with: node and command id
ArbStructs(F) ==
    IF F = "OdriveArbitrationId"
      THEN { ArbRecord(F, TRUE, n, c) : n \in 0..63, c \in OdriveCmdIds }
      ELSE { ArbRecord(F, TRUE, n, c) : n \in 0..33, c \in {154, 162} }

\* F::from_can_message(frame), then value() of the result
CodecIdOfFrame ==
    /\ cx.pc = "idle"
    /\ \E F \in ArbFamilies : \E msg \in ArbFrames(F) :
         cx' = [cx EXCEPT !.pc = "idOfFrame", !.T = F, !.frame = msg,
                          !.out = Arb_from_can_message(F, msg)]
    /\ UNCHANGED << handle, chan, arrived, flushed, ioVars, published, regLock, listeners,
                    task, cmdq, cmdClosed, written, wrFail, sendVars, shPc,
                    lsVars, gm, dv >>

\* a frame that carries a.value() (and the command byte, in family B), then
\* F::from_can_message of that frame
CodecIdToFrame ==
    /\ cx.pc = "idle"
    /\ \E F \in ArbFamilies : \E a \in ArbStructs(F) :
         LET msg == RawCanMessage(Arb_value(a),
                                  IF F = "MyActuatorArbitrationId"
                                    THEN <<a.f.cmd_id>> ELSE <<>>, FALSE)
         IN  cx' = [cx EXCEPT !.pc = "idToFrame", !.T = F, !.msg = a,
                              !.frame = msg,
                              !.out = Arb_from_can_message(F, msg)]
    /\ UNCHANGED << handle, chan, arrived, flushed, ioVars, published, regLock, listeners,
                    task, cmdq, cmdClosed, written, wrFail, sendVars, shPc,
                    lsVars, gm, dv >>

\* the two reply types of the X424 family that carry a current field
QAReturnTypes == {"QAReturnMessageType2", "QAReturnMessageType3"}

\* QAReturnMessageType2::cmd_id, QAReturnMessageType3::cmd_id
QAReturn_cmd_id(T) == IF T = "QAReturnMessageType2" THEN 2 ELSE 3

\* ((msg.data[0] >> 5) & 0x07) as u32 == Self::cmd_id() on a non-empty payload
QAReturn_matches(T, msg) ==
    /\ msg.data # <<>>
    /\ (msg.data[1] \div 32) % 8 = QAReturn_cmd_id(T)

Bytes == 0..255

\* i16::from_be_bytes([hi, lo])
I16FromBe(hi, lo) ==
    LET raw == 256 * hi + lo IN IF raw >= 32768 THEN raw - 65536 ELSE raw

\* -x of an i16 x: when the result does not fit, a build with overflow checks
\* panics and a build without them wraps
I16Neg(x) ==
    IF -x <= 32767
      THEN { [ok |-> TRUE, v |-> -x] }
      ELSE { [ok |-> FALSE, v |-> 0],
             [ok |-> TRUE, v |-> ((-x + 32768) % 65536) - 32768] }

\* the current field of parse_can_msg_data on a payload of 8 bytes, before
\* the conversion to f32 and the division by 100.0
QAReturn_current_raw(data) ==
    LET current_raw == I16FromBe(data[6], data[7])
    IN  IF current_raw < 0 THEN I16Neg(current_raw)
        ELSE { [ok |-> TRUE, v |-> current_raw] }

\* 8-byte replies of type T from node 1: every value of the current bytes
QAReturnFrames(T) ==
    { RawCanMessage(1, <<32 * QAReturn_cmd_id(T), 0, 0, 128, 63, hi, lo, 100>>, FALSE) :
        hi \in Bytes, lo \in Bytes }

\* T::from_can_message of a reply that T::matches accepts, for the two reply
\* types with a current field; the current is kept in hundredths
CodecParseCurrent ==
    /\ cx.pc = "idle"
    /\ \E T \in QAReturnTypes : \E msg \in QAReturnFrames(T) :
         /\ QAReturn_matches(T, msg)
         /\ \E r \in QAReturn_current_raw(msg.data) :
              cx' = [cx EXCEPT
                       !.pc = "current", !.T = T, !.frame = msg,
                       !.out = IF r.ok
                                 THEN [T |-> T,
                                       node_id |->
                                         X424ArbitrationId_from_can_message(msg).node_id,
                                       f |-> [current_x100 |-> r.v]]
                                 ELSE Panic]
    /\ UNCHANGED << handle, chan, arrived, flushed, ioVars, published, regLock, listeners,
                    task, cmdq, cmdClosed, written, wrFail, sendVars, shPc,
                    lsVars, gm, dv >>

CodecNext ==
    \/ CodecEncode \/ CodecDecode \/ CodecReceive \/ CodecRefuse
    \/ CodecIdOfFrame \/ CodecIdToFrame \/ CodecParseCurrent

CodecSpec == Init /\ [][CodecNext]_vars

\* C18: decoding the frame a message was encoded to gives a message of the
\* same type with the same node id and the same field values.
C18_DecodeOfEncodeIsIdentity ==
    cx.pc = "decoded" =>
        /\ cx.out.T = cx.msg.T
        /\ cx.out.node_id = cx.msg.node_id
        /\ cx.out.f = cx.msg.f

\* two types of one family, neither of them the family's generic base type
Siblings(T, U) ==
    /\ T # U
    /\ Family(T) = Family(U)
    /\ T \notin BaseTypes
    /\ U \notin BaseTypes

\* C19: no frame is accepted by the matches of two sibling types of one family.
C19_SiblingMatchersAreExclusive ==
    cx.pc = "received" =>
        \A T, U \in cx.matching : ~Siblings(T, U)

\* C20: from_can_message of a type whose matches accepted the frame returns a
\* message for every payload length, and a payload too short for the type's
\* fields leaves them at their defaults.
C20_DecodeIsTotalOnMatchedFrames ==
    cx.pc = "received" =>
        /\ cx.out.T # "panic"
        /\ Len(cx.frame.data) < ParsedLen(cx.T) => cx.out.f = DefaultFields(cx.T)

\* the heartbeat frame of node 3: arbitration id (3 << 5) | 0x01 and the
\* payload [0, 0, 0, 0, 8, 0, 1]
HeartbeatFrame == RawCanMessage(97, <<0, 0, 0, 0, 8, 0, 1>>, FALSE)

\* C21: the heartbeat frame of node 3 with axis state byte 8 and trajectory
\* byte 1, offered to the heartbeat listener, is decoded as a heartbeat of
\* node 3 in closed-loop control with the trajectory done.
C21_HeartbeatFrameIsDecoded ==
    (cx.pc \in {"received", "refused"} /\ cx.T = "HeartbeatMessage"
       /\ cx.frame = HeartbeatFrame) =>
        /\ cx.pc = "received"
        /\ cx.out.node_id = 3
        /\ cx.out.f.axis_state = 8
        /\ cx.out.f.trajectory_done

\* the speed command of node 5 whose scaled speed is 1234
SpeedCommand ==
    [T |-> "SpeedControlCommand", node_id |-> 5, f |-> [speed_raw |-> 1234]]

\* C22: a send() of the speed command of node 5 with scaled speed 1234 that
\* returned Ok put the frame with arbitration id 0x145 and payload
\* [0xA2, 0, 0, 0, 0xD2, 0x04, 0, 0] on the command queue.
C22_SpeedCommandFrameIsEnqueued ==
    \A p \in Producers :
        (sender[p].res = "Ok"
           /\ sender[p].raw = as_can_message("SpeedControlCommand", SpeedCommand)) =>
            sender[p].frame =
                CanFrame(325, FALSE, <<162, 0, 0, 0, 210, 4, 0, 0>>)
\* C23: an iteration of the I/O loop is one read followed by the drain of the
\* whole command queue: the loop comes to a read only from the flush or from
\* a drain that found the queue empty, a read is followed by the drain (or
\* by the fault branch), and frames are written only inside the drain.
C23_OneReadThenFullDrain ==
    [][ /\ (ioPc # "read" /\ ioPc' = "read") =>
               (ioPc = "flush" \/ (ioPc = "drain" /\ cmdq = <<>>))
        /\ (ioPc = "read" /\ ioPc' # "read") => ioPc' \in {"drain", "lockReg"}
        /\ (written' # written \/ wrFail' # wrFail) =>
               (ioPc = "drain" /\ ioPc' = "drain")
        /\ (published' # published) => (ioPc = "read" /\ ioPc' = "drain") ]_vars

\* two commands were written, the queue was found empty and the loop is at
\* its next read, a frame having been read before
C23_Witness ==
    /\ ioPc = "read"
    /\ Len(written) >= 2
    /\ published # <<>>
    /\ cmdq = <<>>

(* ------------------------------------------------------------------ *)
(* The listener driven through its trait methods                        *)
(* ------------------------------------------------------------------ *)
\* on_error() calls made on one listener by an outside caller
MaxErrorCalls == 1

\* listeners built and held by an outside caller
MaxHeld == 1

\* CanSimpleListener::new by an outside caller, who keeps the listener
NewListener ==
    /\ Len(listeners) < MaxHeld
    /\ \E T \in MsgTypes :
         listeners' = Append(listeners, CanSimpleListener_new(T))
    /\ task' = Append(task, NoTask)
    /\ UNCHANGED << handle, chan, arrived, flushed, ioVars, published, regLock, cmdq,
                    cmdClosed, written, wrFail, sendVars, shPc, lsVars, gm, dv, cx >>

\* l.listen(rx) by the holder of the listener: the consume task is spawned
ListenerListen(i) ==
    /\ task[i].pc = "none"
    /\ task' = [task EXCEPT ![i] = SpawnTask]
    /\ UNCHANGED << handle, chan, arrived, flushed, ioVars, published, regLock, listeners,
                    cmdq, cmdClosed, written, wrFail, sendVars, shPc, lsVars, gm,
                    dv, cx >>

\* l.stop() by the holder of the listener
StopCall(i) ==
    /\ listeners' = [listeners EXCEPT ![i] = stop(@)]
    /\ UNCHANGED << handle, chan, arrived, flushed, ioVars, published, regLock, task, cmdq,
                    cmdClosed, written, wrFail, sendVars, shPc, lsVars, gm, dv, cx >>

\* l.on_error(exc) by the holder of the listener: blocking_lock waits while the
\* consume task holds the guard of the slot
OnErrorCall(i) ==
    /\ listeners[i].nErr < MaxErrorCalls
    /\ listeners[i].errGuard = "free"
    /\ listeners' = [listeners EXCEPT ![i] = on_error(@)]
    /\ UNCHANGED << handle, chan, arrived, flushed, ioVars, published, regLock, task, cmdq,
                    cmdClosed, written, wrFail, sendVars, shPc, lsVars, gm, dv, cx >>

\* listeners driven through their public methods by an outside caller: new,
\* listen, stop, on_error and on_message_received; no CanSimple is involved
StopNext ==
    \/ NewListener
    \/ \E i \in Registered : ListenerListen(i)
    \/ \E i \in Registered : TaskTop(i)
    \/ \E i \in Registered : TaskRecvMessage(i)
    \/ \E i \in Registered : TaskRecvTimeout(i)
    \/ \E i \in Registered : TaskCallbackDone(i)
    \/ \E i \in Registered : TaskFinal(i)
    \/ \E i \in Registered : StopCall(i)
    \/ \E i \in Registered : OnErrorCall(i)
    \/ \E i \in Registered : OnMessageReceived(i)
    \/ OnMessageResume

StopSpec == Init /\ [][StopNext]_vars

\* the runtime schedules every spawned task, and a blocked blocking_send
\* goes on as soon as the queue has room
StopFairness ==
    /\ \A i \in 1..MaxListeners : WF_vars(TaskProgress(i))
    /\ WF_vars(OnMessageResume)

FairStopSpec == StopSpec /\ StopFairness

\* C24: a listener task that left its consume loop because it observed the
\* stop flag returns Ok, whatever the interleaving of stop() with on_error()
\* on the same listener.
C24_StoppedTaskReturnsOk ==
    \A i \in Registered :
        (task[i].pc = "done" /\ task[i].why = "stop") => task[i].res = "Ok"

\* C25: after stop() on a listener whose consume task runs, the task ends
\* (under fair scheduling); a task at the loop head that finds the flag set
\* leaves the loop, a handler invocation in flight ends only by completing,
\* and a task that observed the flag starts no handler invocation.
C25_StoppedTaskExits ==
    /\ \A i \in 1..MaxListeners :
         (i \in Registered /\ listeners[i].is_stopped
            /\ task[i].pc \notin {"none", "done"})
           ~> (i \in Registered /\ task[i].pc = "done")
    /\ [][ \A i \in Registered :
             /\ (task[i].pc = "top" /\ listeners[i].is_stopped
                   /\ task'[i] # task[i]) => task'[i].pc = "final"
             /\ (task[i].pc = "callback" /\ task'[i] # task[i]) =>
                    /\ task'[i].pc = "top"
                    /\ listeners'[i].handled =
                           Append(listeners[i].handled, task[i].cur)
             /\ task[i].why = "stop" =>
                    /\ task'[i].pc \in {"final", "done"}
                    /\ listeners'[i].handled = listeners[i].handled ]_vars

\* a task ended on the stop flag after it had completed a handler invocation,
\* with a frame still waiting in its queue
C25_Witness ==
    \E i \in Registered :
        /\ task[i].pc = "done" /\ task[i].why = "stop" /\ task[i].res = "Ok"
        /\ listeners[i].handled # <<>>
        /\ listeners[i].queue # <<>>

\* C26: the stop flag of a listener is monotonic, whatever step follows, and
\* stop() on a stopped listener leaves the listener as it is and with it the
\* queue and the error slot.
C26_StopFlagIsMonotonic ==
    [][ \A i \in Registered :
          listeners[i].is_stopped =>
              /\ listeners'[i].is_stopped
              /\ stop(listeners[i]) = listeners[i] ]_vars

\* a stopped listener whose task observed the flag, then got an error and a
\* frame, and gave the error back
C26_Witness ==
    \E i \in Registered :
        /\ listeners[i].is_stopped
        /\ task[i].pc = "done" /\ task[i].why = "stop"
        /\ listeners[i].nErr > 0
        /\ listeners[i].bus_error = "None"
        /\ listeners[i].queue # <<>>

\* C27: in a run of the transport the error slot of a listener is set at
\* most once, and the task that returned the error left the slot empty, so
\* that the error cannot be returned again.
C27_ErrorSlotSetOnceReadOnce ==
    \A i \in Registered :
        /\ listeners[i].nErr <= 1
        /\ (task[i].pc = "done" /\ task[i].res = "Err") =>
               (listeners[i].bus_error = "None" /\ listeners[i].nErr = 1)
        /\ listeners[i].bus_error # "None" => listeners[i].nErr = 1

\* the I/O closure ended after the fault and a task returned the error
C27_Witness ==
    /\ ioExit = "fault"
    /\ \E i \in Registered :
         /\ task[i].pc = "done" /\ task[i].res = "Err"
         /\ listeners[i].bus_error = "None"

\* every listener of the registry has its stop flag set
AllStopped == \A i \in Registered : listeners[i].is_stopped

\* C28: once shutdown() has made its stop() calls every listener of the
\* registry has its stop flag set: this holds before the sentinel is put on
\* the command queue, while it is queued, and when shutdown() has returned.
C28_ShutdownStopsEveryListener ==
    /\ shPc \in {"sentinel", "join", "returned"} => AllStopped
    /\ (\E j \in 1..Len(cmdq) : cmdq[j].kind = "Shutdown") => AllStopped
    /\ ioExit = "shutdown" => AllStopped

\* shutdown() returned after the I/O closure consumed the sentinel, with two
\* listeners in the registry
C28_Witness ==
    /\ shPc = "returned"
    /\ ioExit = "shutdown"
    /\ Len(listeners) >= 2
    /\ AllStopped

C30_RefusedSendChangesNothing ==
    [][ \A p \in Producers :
          (sender'[p] # sender[p] /\ sender'[p].res = "InvalidId") =>
              /\ cmdq' = cmdq /\ cmdClosed' = cmdClosed /\ enqLog' = enqLog
              /\ written' = written /\ wrFail' = wrFail
              /\ published' = published /\ listeners' = listeners
              /\ chan' = chan /\ ioVars' = ioVars ]_vars

\* a send() was refused for its id and the frame of a later send() was written
C30_Witness ==
    \E p \in Producers :
        /\ sender[p].res = "InvalidId"
        /\ \E j \in 1..Len(written) : written[j].seq > sender[p].seq
\* C31: for every message m, the frame that as_can_message returns carries
\* the value of m's own gen_arbitration_id() and the bytes of m's own
\* gen_can_msg_data().
C31_EncodeUsesOwnIdAndData ==
    cx.pc = "encoded" =>
        /\ cx.frame.arbitration_id = gen_arbitration_id(cx.T, cx.msg)
        /\ cx.frame.data = gen_can_msg_data(cx.T, cx.msg)
\* C32: in family B, from_can_message of a frame with a payload whose id is
\* in 0x140..0x15F or 0x240..0x25F succeeds with node_id = id - base, and
\* value() of the result is the id of the frame; and from_can_message of a
\* frame that carries value() of a struct gives the node id of the struct.
C32_MyActuatorIdRoundTrip ==
    cx.T = "MyActuatorArbitrationId" =>
        /\ (cx.pc = "idOfFrame" /\ cx.frame.data # <<>>
               /\ MyActuatorCanMessage_matches(cx.frame)) =>
               /\ cx.out.f.ok
               /\ cx.out.node_id =
                      cx.frame.arbitration_id
                        - (IF cx.frame.arbitration_id < 576 THEN 320 ELSE 576)
               /\ Arb_value(cx.out) = cx.frame.arbitration_id
        /\ cx.pc = "idToFrame" =>
               (cx.out.f.ok /\ cx.out.node_id = cx.msg.node_id)

\* C33: in family A, from_can_message gives node = id >> 5 and cmd = id & 0x1F
\* and value() of the result is the id, for every 11-bit id; and
\* from_can_message of a frame that carries value() of a struct gives the
\* struct back, for every node in 0..63 and every declared command id.
C33_OdriveIdRoundTrip ==
    cx.T = "OdriveArbitrationId" =>
        /\ cx.pc = "idOfFrame" =>
               /\ cx.out.node_id * 32 + cx.out.f.cmd_id = cx.frame.arbitration_id
               /\ cx.out.f.cmd_id \in 0..31
               /\ Arb_value(cx.out) = cx.frame.arbitration_id
        /\ cx.pc = "idToFrame" => cx.out = cx.msg

\* the largest 11-bit id was split into node 63 and command 31 and put
\* together again
C33_Witness ==
    /\ cx.pc = "idOfFrame" /\ cx.T = "OdriveArbitrationId"
    /\ cx.frame.arbitration_id = 2047
    /\ cx.out.node_id = 63 /\ cx.out.f.cmd_id = 31

(* ------------------------------------------------------------------ *)
(* The consume task and outside callers on one queue                    *)
(* ------------------------------------------------------------------ *)
\* a listener held by an outside caller whose consume task runs while the
\* caller uses get_message() and wait_for_message() and frames are handed to
\* on_message_received()
ConsumeNext ==
    \/ NewListener
    \/ \E i \in Registered : ListenerListen(i)
    \/ \E i \in Registered : TaskTop(i)
    \/ \E i \in Registered : TaskRecvMessage(i)
    \/ \E i \in Registered : TaskRecvTimeout(i)
    \/ \E i \in Registered : TaskCallbackDone(i)
    \/ \E i \in Registered : OnMessageReceived(i)
    \/ OnMessageResume
    \/ \E i \in Registered : GetMessageCall(i)
    \/ GetMessageReturn
    \/ \E i \in Registered : WaitForMessageCall(i)
    \/ WaitForMessageSome
    \/ WaitForMessageNone

ConsumeSpec == Init /\ [][ConsumeNext]_vars

\* the messages given to the handler of listener i, the one in flight included
GivenToHandler(i) ==
    IF task[i].pc = "callback"
      THEN Append(listeners[i].handled, task[i].cur)
      ELSE listeners[i].handled

\* position of x in the sequence q of distinct elements
PosIn(q, x) == CHOOSE j \in 1..Len(q) : q[j] = x

\* q holds elements of e, each once, in the order of e
InOrderOf(q, e) ==
    /\ \A a \in 1..Len(q) : \E j \in 1..Len(e) : e[j] = q[a]
    /\ \A a, b \in 1..Len(q) : a < b => PosIn(e, q[a]) < PosIn(e, q[b])

\* C34: every message enqueued in a listener's queue is still queued or was
\* handed to exactly one consumer, the handler or a caller of get_message()
\* or wait_for_message(); what has left the queue is a prefix of the
\* enqueues, and each consumer got its messages in enqueue order.
C34_EachMessageConsumedOnce ==
    \A i \in Registered :
        LET l == listeners[i]
            h == GivenToHandler(i)
            n == Len(h) + Len(l.taken)
        IN  /\ n + Len(l.queue) = Len(l.enq)
            /\ l.queue = SubSeq(l.enq, n + 1, Len(l.enq))
            /\ Range(h) \cap Range(l.taken) = {}
            /\ Range(h) \cup Range(l.taken) = Range(SubSeq(l.enq, 1, n))
            /\ InOrderOf(h, l.enq)
            /\ InOrderOf(l.taken, l.enq)

\* of three messages enqueued, callers got the first and the third and the
\* handler got the second
C34_Witness ==
    \E i \in Registered :
        /\ Len(listeners[i].enq) = 3
        /\ Len(listeners[i].handled) = 1
        /\ Len(listeners[i].taken) = 2
        /\ listeners[i].taken[1] = listeners[i].enq[1]
        /\ listeners[i].handled[1] = listeners[i].enq[2]

\* send() call number n was written to the channel
WasWritten(n) == \E j \in 1..Len(written) : written[j].seq = n

\* send() call number n is queued behind the command at the head of the queue
BehindHead(n) ==
    \E j \in 2..Len(cmdq) : cmdq[j].kind = "Send" /\ cmdq[j].seq = n

\* the closure takes the shutdown sentinel in this step
SentinelTaken == ioExit # "shutdown" /\ ioExit' = "shutdown"

\* C35: when the closure leaves on the shutdown sentinel, every frame that
\* send() enqueued ahead of the sentinel has been written to the channel, and
\* a frame enqueued behind the sentinel is not written then nor later.
C35_FramesAheadOfSentinelAreWritten ==
    [][ /\ SentinelTaken =>
            \A n \in Range(enqLog) :
                IF BehindHead(n) THEN ~WasWritten(n) ELSE WasWritten(n)
        /\ ioExit = "shutdown" => written' = written ]_vars

\* the same with the frames whose write returned an error set aside: of the
\* frames ahead of the sentinel, exactly wrFail are missing from the channel
C35_AheadWrittenUnlessWriteFailed ==
    [][ /\ SentinelTaken =>
            /\ \A n \in Range(enqLog) : BehindHead(n) => ~WasWritten(n)
            /\ Cardinality({ n \in Range(enqLog) : ~BehindHead(n) })
                 = Len(written) + wrFail
        /\ ioExit = "shutdown" => written' = written ]_vars

\* the transport on a silent bus (reads time out or fault) with the callers
\* of send() and shutdown()
FaultSendNext ==
    \/ IoOpen \/ IoFlush
    \/ IoReadTimeout \/ IoReadFault
    \/ IoLockRegistry \/ IoFaultExit
    \/ IoDrainEmpty \/ IoDrainSend \/ IoDrainShutdown
    \/ ShutdownCall \/ ShutdownSentinel \/ ShutdownJoin
    \/ \E p \in Producers : SendCall(p)
    \/ \E p \in Producers : SendResume(p)

FaultSendSpec == Init /\ [][FaultSendNext]_vars

\* the same under the fair scheduling of the blocking thread and of the
\* shutdown() future
FairFaultSendSpec ==
    FaultSendSpec /\ WF_vars(IoProgress) /\ WF_vars(ShutdownProgress)

\* the closure has left its loop through the error branch of the read
FaultExited == ioPc = "exited" /\ ioExit = "fault"

\* C36: once the closure has ended on a bus read fault, the frames that were
\* pending in the send queue are not written, then or later; every send()
\* that returns afterwards returns an error and queues nothing; and a
\* shutdown() called afterwards returns.
C36_AfterFaultExit ==
    /\ [][ /\ (ioExit # "fault" /\ ioExit' = "fault") =>
                \A j \in 1..Len(cmdq) : ~WasWritten(cmdq[j].seq)
           /\ FaultExited =>
                /\ written' = written
                /\ cmdq = <<>> /\ cmdq' = <<>>
                /\ \A p \in Producers :
                     sender'[p] # sender[p] =>
                        /\ sender'[p].pc = "idle"
                        /\ sender'[p].res \in {"Closed", "InvalidId"} ]_vars
    /\ (FaultExited /\ shPc = "sentinel") ~> (shPc = "returned")

\* a frame accepted by send() was dropped with the queue at the fault, a
\* later send() of a valid frame was refused, and shutdown() has returned
C36_Witness ==
    /\ FaultExited
    /\ shPc = "returned"
    /\ wrFail = 0
    /\ \E p, q \in Producers :
         /\ sender[p].res = "Ok" /\ ~WasWritten(sender[p].seq)
         /\ sender[q].res = "Closed" /\ sender[q].seq > sender[p].seq

\* listener i was pushed to the registry after the snapshot of listen()
AfterSnapshot(i) == lsPc # "idle" /\ i > lsN

\* C37: listen() releases the registry lock before it spawns and works on its
\* snapshot: register_callbacks can run while listen() is in flight, a
\* listener pushed after the snapshot has no consume task from that call, and
\* a bus fault that follows still stores the error in its slot.
C37_ListenWorksOnSnapshot ==
    /\ [](\A i \in Registered : AfterSnapshot(i) => task[i].pc = "none")
    /\ [][ (ioExit # "fault" /\ ioExit' = "fault") =>
              \A i \in Registered :
                  AfterSnapshot(i) =>
                     /\ listeners[i].bus_error = "BusFault"
                     /\ listeners[i].nErr = 1 ]_vars

\* of two listeners the second was registered while listen() was awaiting the
\* task of the first; the fault reached both and only the first had a task
C37_Witness ==
    /\ lsN = 1
    /\ Len(listeners) = 2
    /\ ioExit = "fault"
    /\ task[1].pc # "none"
    /\ task[2].pc = "none"
    /\ listeners[2].bus_error = "BusFault"

\* arbitration id minus the base of its range, 0x140 or 0x240
IdMinusBase(id) == IF id >= 576 THEN id - 576 ELSE id - 320

\* C38: a received frame that a family-B type T matches is decoded by
\* T::from_can_message to a message whose node id is the arbitration id minus
\* the base of its range, also when the payload is shorter than 8 bytes.
C38_FamilyBNodeIdFromFrame ==
    (cx.pc = "received" /\ cx.T \in MyActuatorTypes /\ cx.out.T # "panic") =>
        cx.out.node_id = IdMinusBase(cx.frame.arbitration_id)

\* the same for the payloads that parse_can_msg_data reads: 8 bytes
C38_NodeIdFromFullFrame ==
    (/\ cx.pc = "received" /\ cx.T \in MyActuatorTypes /\ cx.out.T # "panic"
     /\ Len(cx.frame.data) >= ParsedLen(cx.T)) =>
        cx.out.node_id = IdMinusBase(cx.frame.arbitration_id)

\* |x| of the signed 16-bit value of the two current bytes
AbsOfCurrentBytes(data) ==
    LET c == I16FromBe(data[6], data[7]) IN IF c < 0 THEN -c ELSE c

\* C39: for every value of the current bytes of an 8-byte reply, the two
\* reply types decode the current to the absolute value of the signed 16-bit
\* big-endian field over 100: the decoding does not overflow the 16-bit
\* range and the current is not negative.
C39_CurrentIsAbsOfField ==
    cx.pc = "current" =>
        /\ cx.out.T # "panic"
        /\ cx.out.f.current_x100 = AbsOfCurrentBytes(cx.frame.data)
        /\ cx.out.f.current_x100 \in 0..32767

\* the same for every field value but the most negative one
C39_CurrentIsAbsAboveMin ==
    (cx.pc = "current" /\ I16FromBe(cx.frame.data[6], cx.frame.data[7]) # -32768) =>
        /\ cx.out.T # "panic"
        /\ cx.out.f.current_x100 = AbsOfCurrentBytes(cx.frame.data)
        /\ cx.out.f.current_x100 \in 0..32767

====
